---- MODULE Spec2Model ----
(***************************************************************************)
(* A model of the rzm2 Z-Machine core: the protected memory image          *)
(* (memory.rs, traits.rs), the call stack (stack.rs), the variable         *)
(* namespace (variables.rs) and the opcode handlers that use them.         *)
(*                                                                         *)
(* Every operation is a pure operator on records that mirror the Rust      *)
(* structs; it returns the struct after the call together with the         *)
(* call's Result.  The actions apply one operation to the current state    *)
(* and record the call (op), its result (res) and the state before it      *)
(* (pre_mem, pre_stack), so that the properties can speak about a call.    *)
(*                                                                         *)
(* A Rust panic (slice index out of bounds, arithmetic overflow in a       *)
(* build with overflow checks) is the result kind "Panic"; the program     *)
(* stops there, so no action is enabled after it.                          *)
(***************************************************************************)
EXTENDS Integers, Sequences, FiniteSets, TLC

VARIABLES
    zmem,            \* ZMemory { bytes, static_mem, high_mem }
    zstack,          \* ZStack { stack, fp, s0, sp }
    global_location, \* ZVariables.global_location
    overflow_checks, \* the build: TRUE = u16 overflow panics, FALSE = it wraps
    op,              \* the last call and its arguments
    res,             \* the Result of the last call
    pre_mem,         \* zmem before the last call
    pre_stack,       \* zstack before the last call
    lifo,            \* history the properties compare with: the words pushed
                     \* and not yet popped (SpecStack), the values given to
                     \* the current frame's locals (SpecVars)
    nops,            \* number of calls made so far
    pc,              \* ZPC.pc
    version          \* ZHeader.z_version

vars == <<zmem, zstack, global_location, overflow_checks, op, res,
          pre_mem, pre_stack, lifo, nops, pc, version>>

----------------------------------------------------------------------------
(* Bounds of the model *)

MemSize == 32       \* length of the story image in bytes
MaxMemOps == 2      \* calls explored from each loaded image
MaxStackOps == 4    \* calls explored from each starting stack
MaxVarOps == 2      \* calls explored from each frame of the variable namespace
MaxCallOps == 3     \* instructions executed by a running story
MaxExecOps == 2     \* instructions executed from the start of a program
MaxZstrOps == 2     \* decodings made of each story's strings
MaxFrameOps == 3    \* calls made on each starting stack of SpecFrame
MaxObjOps == 2      \* calls made on each object table

(* Program constants *)

STACK_SIZE == 1024
HOF_HIGH_MEMORY_BASE == 4
HOF_VERSION == 0
HOF_START_PC == 6
HOF_GLOBAL_LOCATION == 12
HOF_STATIC_MEMORY_BASE == 14
HOF_ABBREV_LOCATION == 24
TEST_FRAMES == 42     \* frames of 8 locals that fit above the base frame
MAX_LOCAL == 14
MAX_GLOBAL == 239
SAVED_PC_OFFSET == 0
RETURN_PC_OFFSET == 2
RETURN_VAR_OFFSET == 6
NUM_LOCALS_OFFSET == 7
LOCAL_VAR_OFFSET == 8

U16 == 65536
OPCODE_TYPE_MASK == 192
SHORT_OPCODE_TYPE_MASK == 128
VAR_OPCODE_TYPE_MASK == 192
EXTENDED_OPCODE_SENTINEL == 190          \* u16 values are 0 .. U16 - 1

----------------------------------------------------------------------------
(* Results.  kind is "Ok" or the name of the ZErr variant (or "Panic");    *)
(* val is the value of an Ok, or the payload of the error (aux its second  *)
(* component).                                                             *)

Ok(v) == [kind |-> "Ok", val |-> v, aux |-> 0]
Err(k, v) == [kind |-> k, val |-> v, aux |-> 0]
Err2(k, v, a) == [kind |-> k, val |-> v, aux |-> a]
Panic == [kind |-> "Panic", val |-> 0, aux |-> 0]
IsOk(r) == r.kind = "Ok"

\* The element of a set of one element: {e(x) : x \in {v}} is e of the value
\* v, computed once however often e uses it.
The(S) == CHOOSE x \in S : TRUE

----------------------------------------------------------------------------
(* bytes:: helpers of traits.rs on a slice s (a function on 0..len-1).     *)
(* The callers below index inside the slice or test the index first.       *)

byte_from_slice(s, idx) == s[idx]

word_from_slice(s, idx) ==
    byte_from_slice(s, idx) * 256 + byte_from_slice(s, idx + 1)

long_word_from_slice(s, idx) ==
    byte_from_slice(s, idx) * 16777216 + byte_from_slice(s, idx + 1) * 65536
    + byte_from_slice(s, idx + 2) * 256 + byte_from_slice(s, idx + 3)

word_to_slice(s, idx, val) ==
    [s EXCEPT ![idx] = (val \div 256) % 256, ![idx + 1] = val % 256]

----------------------------------------------------------------------------
(* ZMemory *)

\* The length of the boxed slice of bytes.
memory_size(m) == Cardinality(DOMAIN m.bytes)

\* ZMemory::new: the region bases are read from the header of the image.
ZMemory_new(image) ==
    [bytes |-> image,
     static_mem |-> word_from_slice(image, HOF_STATIC_MEMORY_BASE),
     high_mem |-> word_from_slice(image, HOF_HIGH_MEMORY_BASE)]

\* self.bytes[at]: indexing past the end of the boxed slice panics.
read_byte(m, at) ==
    IF at < memory_size(m) THEN Ok(m.bytes[at]) ELSE Panic

\* The guard of write_byte with the comparison off by one.
write_byte_inclusive(m, at, val) ==
    IF at <= m.static_mem
    THEN IF at < memory_size(m)
         THEN [m |-> [m EXCEPT !.bytes[at] = val], res |-> Ok(0)]
         ELSE [m |-> m, res |-> Panic]
    ELSE [m |-> m, res |-> Err("WriteViolation", at)]

\* write_byte that stores the byte before it tests the region.
write_byte_store_first(m, at, val) ==
    IF at >= memory_size(m) THEN [m |-> m, res |-> Panic]
    ELSE [m |-> [m EXCEPT !.bytes[at] = val],
          res |-> IF at < m.static_mem THEN Ok(0)
                  ELSE Err("WriteViolation", at)]

\* write_byte stores below static_mem and refuses at or above it.
write_byte(m, at, val) ==
    IF at < m.static_mem
    THEN IF at < memory_size(m)
         THEN [m |-> [m EXCEPT !.bytes[at] = val], res |-> Ok(0)]
         ELSE [m |-> m, res |-> Panic]
    ELSE [m |-> m, res |-> Err("WriteViolation", at)]

\* Memory::read_word: two byte reads, big-endian.
read_word(m, at) ==
    LET high_byte == read_byte(m, at)
        low_byte == read_byte(m, at + 1)
    IN  IF ~IsOk(high_byte) THEN high_byte
        ELSE IF ~IsOk(low_byte) THEN low_byte
        ELSE Ok(high_byte.val * 256 + low_byte.val)

\* Memory::write_word with the two bytes swapped.
write_word_little_endian(m, at, val) ==
    LET first == write_byte(m, at, val % 256)
    IN  IF ~IsOk(first.res) THEN first
        ELSE write_byte(first.m, at + 1, (val \div 256) % 256)

\* Memory::write_word: write_byte(offset, high)?; write_byte(offset + 1, low).
write_word(m, at, val) ==
    LET high_byte == (val \div 256) % 256
        low_byte == val % 256
        first == write_byte(m, at, high_byte)
    IN  IF ~IsOk(first.res) THEN first
        ELSE write_byte(first.m, at + 1, low_byte)

----------------------------------------------------------------------------
(* u16 and u8 arithmetic: an overflow panics in a build with overflow      *)
(* checks and wraps in a build without.                                    *)

u16_add(a, b) ==
    IF a + b < U16 THEN Ok(a + b)
    ELSE IF overflow_checks THEN Panic ELSE Ok((a + b) % U16)

u16_mul(a, b) ==
    IF a * b < U16 THEN Ok(a * b)
    ELSE IF overflow_checks THEN Panic ELSE Ok((a * b) % U16)

u8_add(a, b) ==
    IF a + b < 256 THEN Ok(a + b)
    ELSE IF overflow_checks THEN Panic ELSE Ok((a + b) % 256)

\* ByteAddress::inc_by(by: u16): the sum is a u16.
ByteAddress_inc_by(ba, by) == u16_add(ba, by)

----------------------------------------------------------------------------
(* ZVariable and its byte encoding *)

Stack == [tag |-> "Stack", idx |-> 0]
Local(l) == [tag |-> "Local", idx |-> l]
Global(g) == [tag |-> "Global", idx |-> g]

\* The decoding with the Local range one byte too long.
ZVariable_from_u8_long_locals(byte) ==
    IF byte = 0 THEN Stack
    ELSE IF byte <= 16 THEN Local(byte - 1)
    ELSE Global(byte - 16)

\* impl From<u8> for ZVariable
ZVariable_from_u8(byte) ==
    IF byte = 0 THEN Stack
    ELSE IF byte <= 15 THEN Local(byte - 1)
    ELSE Global(byte - 16)

\* impl From<ZVariable> for u8
u8_from_ZVariable(var) ==
    IF var.tag = "Stack" THEN Ok(0)
    ELSE IF var.tag = "Local" THEN u8_add(var.idx, 1)
    ELSE u8_add(var.idx, 16)

----------------------------------------------------------------------------
(* ZStack.  A step of a call is a record [st, res]: the stack after the    *)
(* step and the step's Result.                                             *)

\* push_byte with the capacity test off by one.
push_byte_short(st, byte) ==
    IF st.sp < STACK_SIZE - 1
    THEN [st |-> [st EXCEPT !.stack[st.sp] = byte, !.sp = st.sp + 1],
          res |-> Ok(0)]
    ELSE [st |-> st, res |-> Err("StackOverflow", 0)]

push_byte(st, byte) ==
    IF st.sp < STACK_SIZE
    THEN [st |-> [st EXCEPT !.stack[st.sp] = byte, !.sp = st.sp + 1],
          res |-> Ok(0)]
    ELSE [st |-> st, res |-> Err("StackOverflow", 0)]

pop_byte(st) ==
    IF st.sp > st.s0
    THEN [st |-> [st EXCEPT !.sp = st.sp - 1], res |-> Ok(st.stack[st.sp - 1])]
    ELSE [st |-> st, res |-> Err("StackUnderflow", 0)]

\* Stack::push_word: push_byte(high)?; push_byte(low)?
push_word(st, word) ==
    LET high == push_byte(st, (word \div 256) % 256)
    IN  IF ~IsOk(high.res) THEN high
        ELSE push_byte(high.st, word % 256)

\* Stack::pop_word: low = pop_byte()?; high = pop_byte()?
pop_word(st) ==
    LET low_byte == pop_byte(st)
        high_byte == pop_byte(low_byte.st)
    IN  IF ~IsOk(low_byte.res) THEN low_byte
        ELSE IF ~IsOk(high_byte.res) THEN high_byte
        ELSE [st |-> high_byte.st,
              res |-> Ok(high_byte.res.val * 256 + low_byte.res.val)]

\* push_addr: the two 16-bit halves of the low 32 bits, high half first.
push_addr(st, addr) ==
    LET high == push_word(st, (addr \div 65536) % 65536)
    IN  IF ~IsOk(high.res) THEN high
        ELSE push_word(high.st, addr % 65536)

\* Reading self.stack[i] for i >= STACK_SIZE panics.
saved_fp(st) ==
    IF st.fp + SAVED_PC_OFFSET + 1 < STACK_SIZE
    THEN Ok(word_from_slice(st.stack, st.fp + SAVED_PC_OFFSET))
    ELSE Panic

num_locals(st) ==
    IF st.fp + NUM_LOCALS_OFFSET < STACK_SIZE
    THEN Ok(byte_from_slice(st.stack, st.fp + NUM_LOCALS_OFFSET))
    ELSE Panic

return_pc(st) ==
    IF st.fp + RETURN_PC_OFFSET + 3 < STACK_SIZE
    THEN Ok(long_word_from_slice(st.stack, st.fp + RETURN_PC_OFFSET))
    ELSE Panic

\* The byte of the return variable; ZVariable_from_u8 decodes it.
return_variable(st) ==
    IF st.fp + RETURN_VAR_OFFSET < STACK_SIZE
    THEN Ok(byte_from_slice(st.stack, st.fp + RETURN_VAR_OFFSET))
    ELSE Panic

\* read_local with the range test off by one.
read_local_inclusive(st, l) ==
    LET n == num_locals(st)
        at == st.fp + LOCAL_VAR_OFFSET + l * 2
    IN  IF ~IsOk(n) THEN [st |-> st, res |-> n]
        ELSE IF l > n.val
        THEN [st |-> st, res |-> Err2("LocalOutOfRange", l, n.val)]
        ELSE IF at + 1 < STACK_SIZE
        THEN [st |-> st, res |-> Ok(word_from_slice(st.stack, at))]
        ELSE [st |-> st, res |-> Panic]

read_local(st, l) ==
    LET n == num_locals(st)
        at == st.fp + LOCAL_VAR_OFFSET + l * 2
    IN  IF ~IsOk(n) THEN [st |-> st, res |-> n]
        ELSE IF l >= n.val
        THEN [st |-> st, res |-> Err2("LocalOutOfRange", l, n.val)]
        ELSE IF at + 1 < STACK_SIZE
        THEN [st |-> st, res |-> Ok(word_from_slice(st.stack, at))]
        ELSE [st |-> st, res |-> Panic]

\* write_local with the slot address not scaled by the word size.
write_local_unscaled(st, l, val) ==
    LET at == st.fp + LOCAL_VAR_OFFSET + l
    IN  IF at + 1 < STACK_SIZE
        THEN [st |-> [st EXCEPT !.stack = word_to_slice(st.stack, at, val)],
              res |-> Ok(0)]
        ELSE [st |-> st, res |-> Panic]

\* write_local makes no range check: it stores at the slot's address.
write_local(st, l, val) ==
    LET at == st.fp + LOCAL_VAR_OFFSET + l * 2
    IN  IF at + 1 < STACK_SIZE
        THEN [st |-> [st EXCEPT !.stack = word_to_slice(st.stack, at, val)],
              res |-> Ok(0)]
        ELSE IF at < STACK_SIZE
        THEN [st |-> [st EXCEPT !.stack[at] = (val \div 256) % 256],
              res |-> Panic]
        ELSE [st |-> st, res |-> Panic]

\* for _ in 0..num_locals { push_word(0)? }
RECURSIVE push_zero_locals(_, _)
push_zero_locals(st, n) ==
    IF n = 0 THEN [st |-> st, res |-> Ok(0)]
    ELSE LET one == push_word(st, 0)
         IN  IF ~IsOk(one.res) THEN one
             ELSE push_zero_locals(one.st, n - 1)

\* The copy of the operands without the break at num_locals.
RECURSIVE set_locals_all(_, _, _, _)
set_locals_all(st, n, operands, idx) ==
    IF idx >= Len(operands) THEN [st |-> st, res |-> Ok(0)]
    ELSE LET one == write_local(st, idx, operands[idx + 1])
         IN  IF ~IsOk(one.res) THEN one
             ELSE set_locals_all(one.st, n, operands, idx + 1)

\* for (idx, op) in operands { if idx >= num_locals { break }; write_local }
RECURSIVE set_locals(_, _, _, _)
set_locals(st, n, operands, idx) ==
    IF idx >= Len(operands) \/ idx >= n THEN [st |-> st, res |-> Ok(0)]
    ELSE LET one == write_local(st, idx, operands[idx + 1])
         IN  IF ~IsOk(one.res) THEN one
             ELSE set_locals(one.st, n, operands, idx + 1)

\* push_frame: every `?` returns at once, keeping what was already pushed.
push_frame(st, ret_pc, n, return_var, operands) ==
    LET new_fp == st.sp
        old_fp == st.fp
        s1 == push_word(st, old_fp % U16)
        s2 == push_addr([s1.st EXCEPT !.fp = new_fp], ret_pc)
        rv == u8_from_ZVariable(return_var)
        s3 == push_byte(s2.st, rv.val)
        s4 == push_byte(s3.st, n)
        s5 == push_zero_locals(s4.st, n)
        s6 == set_locals(s5.st, n, operands, 0)
    IN  IF ~IsOk(s1.res) THEN s1
        ELSE IF ~IsOk(s2.res) THEN s2
        ELSE IF ~IsOk(rv) THEN [st |-> s2.st, res |-> rv]
        ELSE IF ~IsOk(s3.res) THEN s3
        ELSE IF ~IsOk(s4.res) THEN s4
        ELSE IF ~IsOk(s5.res) THEN s5
        ELSE IF ~IsOk(s6.res) THEN s6
        ELSE [st |-> [s6.st EXCEPT !.s0 = s6.st.sp], res |-> Ok(0)]

\* pop_frame: the underflow test, then sp, fp and s0 are assigned in turn.
pop_frame(st) ==
    LET saved == saved_fp(st)
        st1 == [st EXCEPT !.sp = st.fp, !.fp = saved.val]
        n == num_locals(st1)
    IN  IF ~IsOk(saved) THEN [st |-> st, res |-> saved]
        ELSE IF saved.val >= STACK_SIZE
        THEN [st |-> st, res |-> Err("StackUnderflow", 0)]
        ELSE IF ~IsOk(n) THEN [st |-> st1, res |-> n]
        ELSE [st |-> [st1 EXCEPT !.s0 = st1.fp + LOCAL_VAR_OFFSET + 2 * n.val],
              res |-> Ok(0)]

\* ZStack::new: init_new_stack pushes the base pseudo-frame onto the zeroed
\* array (saved fp = STACK_SIZE, return pc 0, return variable Global(0xef),
\* no locals), and s0 is set to the sp it leaves.
ZStack_new ==
    [stack |-> [i \in 0 .. STACK_SIZE - 1 |->
                   CASE i = SAVED_PC_OFFSET -> STACK_SIZE \div 256
                     [] i = SAVED_PC_OFFSET + 1 -> STACK_SIZE % 256
                     [] i = RETURN_VAR_OFFSET -> MAX_GLOBAL + 16
                     [] OTHER -> 0],
     fp |-> 0,
     s0 |-> LOCAL_VAR_OFFSET,
     sp |-> LOCAL_VAR_OFFSET]

----------------------------------------------------------------------------
(* ZVariables: the variable namespace over the memory m and the stack st.  *)
(* A call returns [m, st, res].                                            *)

check_local_range(l) ==
    IF l <= MAX_LOCAL THEN Ok(0) ELSE Err("BadVariableIndex", l)

check_global_range(g) ==
    IF g <= MAX_GLOBAL THEN Ok(0) ELSE Err("BadVariableIndex", g)

\* pop_stack hands on what pop_word returns.
ZVariables_pop_stack(m, st) ==
    LET r == pop_word(st)
    IN  [m |-> m, st |-> r.st, res |-> r.res]

\* push_stack calls push_word and drops its Result.
ZVariables_push_stack(m, st, word) ==
    LET r == push_word(st, word)
    IN  [m |-> m, st |-> r.st, res |-> Ok(0)]

ZVariables_read_local(m, st, l) ==
    LET range == check_local_range(l)
        r == read_local(st, l)
    IN  IF ~IsOk(range) THEN [m |-> m, st |-> st, res |-> range]
        ELSE [m |-> m, st |-> r.st, res |-> r.res]

\* write_local calls the stack's write_local, drops its Result, returns Ok.
ZVariables_write_local(m, st, l, word) ==
    LET range == check_local_range(l)
        r == write_local(st, l, word)
    IN  IF ~IsOk(range) THEN [m |-> m, st |-> st, res |-> range]
        ELSE IF r.res.kind = "Panic" THEN [m |-> m, st |-> r.st, res |-> Panic]
        ELSE [m |-> m, st |-> r.st, res |-> Ok(0)]

ZVariables_read_global(m, st, g) ==
    LET range == check_global_range(g)
        offset == ByteAddress_inc_by(global_location, 2 * g)
    IN  IF ~IsOk(range) THEN [m |-> m, st |-> st, res |-> range]
        ELSE IF ~IsOk(offset) THEN [m |-> m, st |-> st, res |-> offset]
        ELSE [m |-> m, st |-> st, res |-> read_word(m, offset.val)]

ZVariables_write_global(m, st, g, word) ==
    LET range == check_global_range(g)
        offset == ByteAddress_inc_by(global_location, 2 * g)
        w == write_word(m, offset.val, word)
    IN  IF ~IsOk(range) THEN [m |-> m, st |-> st, res |-> range]
        ELSE IF ~IsOk(offset) THEN [m |-> m, st |-> st, res |-> offset]
        ELSE [m |-> w.m, st |-> st, res |-> w.res]

read_variable(m, st, var) ==
    IF var.tag = "Stack" THEN ZVariables_pop_stack(m, st)
    ELSE IF var.tag = "Local" THEN ZVariables_read_local(m, st, var.idx)
    ELSE ZVariables_read_global(m, st, var.idx)

write_variable(m, st, var, val) ==
    IF var.tag = "Stack" THEN ZVariables_push_stack(m, st, val)
    ELSE IF var.tag = "Local" THEN ZVariables_write_local(m, st, var.idx, val)
    ELSE ZVariables_write_global(m, st, var.idx, val)

----------------------------------------------------------------------------
(* ZOperand *)

LargeConstant(v) == [kind |-> "LargeConstant", val |-> v, var |-> Stack]
SmallConstant(v) == [kind |-> "SmallConstant", val |-> v, var |-> Stack]
Var(v) == [kind |-> "Var", val |-> 0, var |-> v]
NoOperand == [kind |-> "Omitted", val |-> 0, var |-> Stack]

\* ZOperand::value
ZOperand_value(operand, m, st) ==
    IF operand.kind = "LargeConstant" \/ operand.kind = "SmallConstant"
    THEN [m |-> m, st |-> st, res |-> Ok(operand.val)]
    ELSE IF operand.kind = "Var" THEN read_variable(m, st, operand.var)
    ELSE [m |-> m, st |-> st, res |-> Err("MissingOperand", 0)]

----------------------------------------------------------------------------
(* Opcode handlers *)

\* VAR:225 storew array word-index value
o_225_storew(m, st, operands) ==
    The({
        IF ~IsOk(array.res) THEN array
        ELSE The({
            IF ~IsOk(word_index.res) THEN word_index
            ELSE The({
                LET twice == u16_mul(2, word_index.res.val)
                    ba == ByteAddress_inc_by(array.res.val, twice.val)
                    w == write_word(value.m, ba.val, value.res.val)
                IN  IF ~IsOk(value.res) THEN value
                    ELSE IF ~IsOk(twice)
                    THEN [m |-> value.m, st |-> value.st, res |-> twice]
                    ELSE IF ~IsOk(ba)
                    THEN [m |-> value.m, st |-> value.st, res |-> ba]
                    ELSE [m |-> w.m, st |-> value.st, res |-> w.res]
                : value \in {ZOperand_value(operands[3], word_index.m,
                                            word_index.st)}})
            : word_index \in {ZOperand_value(operands[2], array.m,
                                             array.st)}})
        : array \in {ZOperand_value(operands[1], m, st)}})

----------------------------------------------------------------------------
(* The pc and the routine opcodes.  A handler's step is a record            *)
(* [m, st, pc, res]: memory, stack and pc after it, and its Result.         *)

\* ZPC::next_byte: the byte at the pc; the pc moves past it.
\* A negative pc stands for the usize a negative sum wrapped to (see
\* offset_pc): no byte of the image is there.
next_byte(m, p) ==
    [pc |-> p + 1, res |-> IF p < 0 THEN Panic ELSE read_byte(m, p)]

\* PC::next_word: two next_byte calls, high byte first.
next_word(m, p) ==
    LET high_byte == next_byte(m, p)
        low_byte == next_byte(m, high_byte.pc)
    IN  IF ~IsOk(high_byte.res) THEN [pc |-> p, res |-> Panic]
        ELSE IF ~IsOk(low_byte.res) THEN [pc |-> high_byte.pc, res |-> Panic]
        ELSE [pc |-> low_byte.pc,
              res |-> Ok(high_byte.res.val * 256 + low_byte.res.val)]

\* ZVersion::make_packed_address and From<PackedAddress> for ZOffset.
make_packed_address(ver, val) == val * (IF ver = 3 THEN 2 ELSE 4)

\* for i in 0..num_locals { local_values[usize::from(i)] = pc.next_word() }
\* local_values has 15 slots: the store to a 16th panics.
RECURSIVE header_local_values(_, _, _, _)
header_local_values(m, p, n, vals) ==
    IF Len(vals) >= n THEN [pc |-> p, res |-> Ok(0), vals |-> vals]
    ELSE LET word == next_word(m, p)
         IN  IF ~IsOk(word.res) \/ Len(vals) >= MAX_LOCAL + 1
             THEN [pc |-> word.pc, res |-> Panic, vals |-> vals]
             ELSE header_local_values(m, word.pc, n, Append(vals, word.res.val))

\* o_224_call whose frame returns to the store byte instead of the byte
\* after it.
o_224_call_return_to_store(m, st, p, ver, operands) ==
    LET store == next_byte(m, p)
        routine == ZOperand_value(operands[1], m, st)
        n == next_byte(m, make_packed_address(ver, routine.res.val))
        header == IF ver < 5
                  THEN header_local_values(m, n.pc, n.res.val, <<>>)
                  ELSE [pc |-> n.pc, res |-> Ok(0), vals |-> <<>>]
        local_values == [i \in 1 .. MAX_LOCAL + 1 |->
                            IF i <= Len(header.vals) THEN header.vals[i] ELSE 0]
        frame == push_frame(routine.st, p, n.res.val,
                            ZVariable_from_u8(store.res.val), local_values)
    IN  IF ~IsOk(store.res)
        THEN [m |-> m, st |-> st, pc |-> p, res |-> Panic]
        ELSE IF ~IsOk(routine.res)
        THEN [m |-> routine.m, st |-> routine.st, pc |-> store.pc,
              res |-> routine.res]
        ELSE IF ~IsOk(n.res)
        THEN [m |-> routine.m, st |-> routine.st,
              pc |-> make_packed_address(ver, routine.res.val), res |-> Panic]
        ELSE IF ~IsOk(header.res)
        THEN [m |-> routine.m, st |-> routine.st, pc |-> header.pc,
              res |-> header.res]
        ELSE [m |-> routine.m, st |-> frame.st, pc |-> header.pc,
              res |-> frame.res]

\* VAR:224 call routine ...up to 3 args... -> (result)
\* The operands after the first are not read; the frame's locals come from
\* local_values alone.
o_224_call(m, st, p, ver, operands) ==
    LET store == next_byte(m, p)
        return_pc_ == store.pc
        routine == ZOperand_value(operands[1], m, st)
        n == next_byte(m, make_packed_address(ver, routine.res.val))
        header == IF ver < 5
                  THEN header_local_values(m, n.pc, n.res.val, <<>>)
                  ELSE [pc |-> n.pc, res |-> Ok(0), vals |-> <<>>]
        local_values == [i \in 1 .. MAX_LOCAL + 1 |->
                            IF i <= Len(header.vals) THEN header.vals[i] ELSE 0]
        frame == push_frame(routine.st, return_pc_, n.res.val,
                            ZVariable_from_u8(store.res.val), local_values)
    IN  IF ~IsOk(store.res)
        THEN [m |-> m, st |-> st, pc |-> p, res |-> Panic]
        ELSE IF ~IsOk(routine.res)
        THEN [m |-> routine.m, st |-> routine.st, pc |-> store.pc,
              res |-> routine.res]
        ELSE IF ~IsOk(n.res)
        THEN [m |-> routine.m, st |-> routine.st,
              pc |-> make_packed_address(ver, routine.res.val), res |-> Panic]
        ELSE IF ~IsOk(header.res)
        THEN [m |-> routine.m, st |-> routine.st, pc |-> header.pc,
              res |-> header.res]
        ELSE [m |-> routine.m, st |-> frame.st, pc |-> header.pc,
              res |-> frame.res]

\* return_value: the frame's return pc and return variable are read, the
\* frame is popped, the value is written, the pc is set.
return_value(m, st, p, value) ==
    LET ret_pc == return_pc(st)
        ret_var == return_variable(st)
        popped == pop_frame(st)
        written == write_variable(m, popped.st,
                                  ZVariable_from_u8(ret_var.val), value)
    IN  IF ~IsOk(ret_pc) \/ ~IsOk(ret_var)
        THEN [m |-> m, st |-> st, pc |-> p, res |-> Panic]
        ELSE IF ~IsOk(popped.res)
        THEN [m |-> m, st |-> popped.st, pc |-> p, res |-> popped.res]
        ELSE IF ~IsOk(written.res)
        THEN [m |-> written.m, st |-> written.st, pc |-> p,
              res |-> written.res]
        ELSE [m |-> written.m, st |-> written.st, pc |-> ret_pc.val,
              res |-> Ok(0)]

\* 0OP:176 rtrue
o_176_rtrue(m, st, p) == return_value(m, st, p, 1)

\* 0OP:177 rfalse
o_177_rfalse(m, st, p) == return_value(m, st, p, 0)

\* 1OP:139 ret value
o_139_ret(m, st, p, operand) ==
    LET result == ZOperand_value(operand, m, st)
    IN  IF ~IsOk(result.res)
        THEN [m |-> result.m, st |-> result.st, pc |-> p, res |-> result.res]
        ELSE return_value(result.m, result.st, p, result.res.val)

----------------------------------------------------------------------------
(* The form of an opcode byte.  A decoded opcode is a record: its form, its *)
(* number, the kinds of the operands the form itself fixes, and the table   *)
(* of handlers it is looked up in.                                          *)

\* a & b on bytes
RECURSIVE u8_and(_, _)
u8_and(a, b) ==
    IF a = 0 \/ b = 0 THEN 0
    ELSE (a % 2) * (b % 2) + 2 * u8_and(a \div 2, b \div 2)

\* The operand type taken from the whole byte.
ZOperandType_from_u8_whole_byte(byte) ==
    CASE byte = 0 -> "LargeConstant"
      [] byte = 1 -> "SmallConstant"
      [] byte = 2 -> "Var"
      [] OTHER -> "Omitted"

\* impl From<u8> for ZOperandType: the top bits are ignored.
ZOperandType_from_u8(byte) ==
    CASE u8_and(byte, 3) = 0 -> "LargeConstant"
      [] u8_and(byte, 3) = 1 -> "SmallConstant"
      [] u8_and(byte, 3) = 2 -> "Var"
      [] OTHER -> "Omitted"

execute_extended_opcode(byte) ==
    [form |-> "extended", opcode |-> byte, optypes |-> <<>>,
     table |-> "extended"]

\* The low 4 bits are the opcode, bits 4 and 5 the operand type.
execute_short_opcode(byte) ==
    LET opcode == u8_and(byte, 15)
        optype == ZOperandType_from_u8(u8_and(byte, 48) \div 16)
    IN  [form |-> "short", opcode |-> opcode, optypes |-> <<optype>>,
         table |-> IF optype = "Omitted" THEN "0op" ELSE "1op"]

\* The low 5 bits are the opcode; the operand types are in the next byte.
execute_var_opcode(byte) ==
    [form |-> "var", opcode |-> u8_and(byte, 31), optypes |-> <<>>,
     table |-> IF u8_and(byte, 32) = 0 THEN "long" ELSE "var"]

\* The low 5 bits are the opcode; bit 6 and bit 5 give the operand types.
execute_long_opcode(byte) ==
    [form |-> "long", opcode |-> u8_and(byte, 31),
     optypes |-> <<IF u8_and(byte, 64) = 0 THEN "SmallConstant" ELSE "Var",
                   IF u8_and(byte, 32) = 0 THEN "SmallConstant" ELSE "Var">>,
     table |-> "long"]

\* execute_opcode without the test of the version.
execute_opcode_any_version(ver, byte) ==
    IF byte = EXTENDED_OPCODE_SENTINEL
    THEN execute_extended_opcode(byte)
    ELSE IF u8_and(byte, OPCODE_TYPE_MASK) = SHORT_OPCODE_TYPE_MASK
    THEN execute_short_opcode(byte)
    ELSE IF u8_and(byte, OPCODE_TYPE_MASK) = VAR_OPCODE_TYPE_MASK
    THEN execute_var_opcode(byte)
    ELSE execute_long_opcode(byte)

\* ZProcessor::execute_opcode, on the byte next_byte returned.
execute_opcode(ver, byte) ==
    IF byte = EXTENDED_OPCODE_SENTINEL /\ ver >= 5
    THEN execute_extended_opcode(byte)
    ELSE IF u8_and(byte, OPCODE_TYPE_MASK) = SHORT_OPCODE_TYPE_MASK
    THEN execute_short_opcode(byte)
    ELSE IF u8_and(byte, OPCODE_TYPE_MASK) = VAR_OPCODE_TYPE_MASK
    THEN execute_var_opcode(byte)
    ELSE execute_long_opcode(byte)

----------------------------------------------------------------------------
(* Operands, branches and the handlers of the branching, storing and        *)
(* arithmetic opcodes.  A predicate's step is a record [m, st, res] whose   *)
(* Ok value is 1 for true and 0 for false.                                  *)

\* v as i16
as_i16(v) == IF v >= 32768 THEN v - U16 ELSE v

\* PC::offset_pc: (pc as isize + offset) as usize.  A negative sum wraps to a
\* usize near the top of the address space; the model keeps the negative sum
\* to stand for it.
offset_pc(p, offset) == p + offset

\* ZOperand::read_operand
read_operand(m, p, otype) ==
    CASE otype = "LargeConstant" ->
            LET lc == next_word(m, p)
            IN  [pc |-> lc.pc, res |-> lc.res,
                 operand |-> LargeConstant(lc.res.val)]
      [] otype = "SmallConstant" ->
            LET sc == next_byte(m, p)
            IN  [pc |-> sc.pc, res |-> sc.res,
                 operand |-> SmallConstant(sc.res.val)]
      [] otype = "Var" ->
            LET var == next_byte(m, p)
            IN  [pc |-> var.pc, res |-> var.res,
                 operand |-> Var(ZVariable_from_u8(var.res.val))]
      [] OTHER -> [pc |-> p, res |-> Ok(0), operand |-> NoOperand]

\* The operand loop reading every kind, an Omitted one included.
RECURSIVE var_operands_no_break(_, _, _, _, _)
var_operands_no_break(m, p, optypes, idx, operands) ==
    IF idx >= 4 THEN [pc |-> p, res |-> Ok(0), operands |-> operands]
    ELSE LET optype == optypes \div (4 ^ (3 - idx))
             r == read_operand(m, p, ZOperandType_from_u8(optype))
         IN  IF ~IsOk(r.res)
             THEN [pc |-> r.pc, res |-> Panic, operands |-> operands]
             ELSE var_operands_no_break(m, r.pc, optypes, idx + 1,
                      [operands EXCEPT ![idx + 1] = r.operand])

\* execute_var_opcode: for idx in 0..4 { optype = optypes >> ((3 - idx) * 2);
\* read_operand; Omitted => break }
RECURSIVE var_operands(_, _, _, _, _)
var_operands(m, p, optypes, idx, operands) ==
    IF idx >= 4 THEN [pc |-> p, res |-> Ok(0), operands |-> operands]
    ELSE LET optype == optypes \div (4 ^ (3 - idx))
             r == read_operand(m, p, ZOperandType_from_u8(optype))
         IN  IF ~IsOk(r.res)
             THEN [pc |-> r.pc, res |-> Panic, operands |-> operands]
             ELSE IF r.operand.kind = "Omitted"
             THEN [pc |-> p, res |-> Ok(0), operands |-> operands]
             ELSE var_operands(m, r.pc, optypes, idx + 1,
                      [operands EXCEPT ![idx + 1] = r.operand])

\* interpret_offset_byte with the two-byte offset left unsigned.
interpret_offset_byte_unsigned(m, p, byte) ==
    IF u8_and(byte, 64) # 0
    THEN [pc |-> p, res |-> Ok(0), offset |-> u8_and(byte, 63)]
    ELSE LET second_byte == next_byte(m, p)
         IN  [pc |-> second_byte.pc, res |-> second_byte.res,
              offset |-> u8_and(byte, 63) * 256 + second_byte.res.val]

\* interpret_offset_byte: the offset as an i16.
interpret_offset_byte(m, p, byte) ==
    IF u8_and(byte, 64) # 0
    THEN [pc |-> p, res |-> Ok(0), offset |-> u8_and(byte, 63)]
    ELSE LET second_byte == next_byte(m, p)
             offset == u8_and(byte, 63) * 256 + second_byte.res.val
         IN  [pc |-> second_byte.pc, res |-> second_byte.res,
              offset |-> as_i16(IF offset \div 8192 # 0
                                THEN offset + 49152 ELSE offset)]

\* branch that moves the pc by the offset itself.
branch_plain_offset(m, st, p, byte, tst) ==
    LET branch_on_truth == u8_and(byte, 128) # 0
        off == interpret_offset_byte(m, p, byte)
    IN  IF ~IsOk(off.res)
        THEN [m |-> m, st |-> st, pc |-> off.pc, res |-> Panic]
        ELSE IF ~IsOk(tst.res)
        THEN [m |-> tst.m, st |-> tst.st, pc |-> off.pc, res |-> tst.res]
        ELSE IF branch_on_truth = (tst.res.val = 1)
        THEN IF off.offset \in {0, 1}
             THEN [m |-> tst.m, st |-> tst.st, pc |-> off.pc, res |-> Panic]
             ELSE [m |-> tst.m, st |-> tst.st,
                   pc |-> offset_pc(off.pc, off.offset), res |-> Ok(0)]
        ELSE [m |-> tst.m, st |-> tst.st, pc |-> off.pc, res |-> Ok(0)]

\* branch: `byte` is the first offset byte, already read; tst is the step of
\* the predicate, which the code runs after the offset is read.  Offsets 0
\* and 1 of a taken branch are unimplemented!().
branch(m, st, p, byte, tst) ==
    LET branch_on_truth == u8_and(byte, 128) # 0
        off == interpret_offset_byte(m, p, byte)
    IN  IF ~IsOk(off.res)
        THEN [m |-> m, st |-> st, pc |-> off.pc, res |-> Panic]
        ELSE IF ~IsOk(tst.res)
        THEN [m |-> tst.m, st |-> tst.st, pc |-> off.pc, res |-> tst.res]
        ELSE IF branch_on_truth = (tst.res.val = 1)
        THEN IF off.offset \in {0, 1}
             THEN [m |-> tst.m, st |-> tst.st, pc |-> off.pc, res |-> Panic]
             ELSE [m |-> tst.m, st |-> tst.st,
                   pc |-> offset_pc(off.pc, off.offset - 2), res |-> Ok(0)]
        ELSE [m |-> tst.m, st |-> tst.st, pc |-> off.pc, res |-> Ok(0)]

\* 1OP:128 jz a ?(label)
o_128_jz(m, st, p, operand) ==
    The({IF ~IsOk(first_offset_byte.res)
         THEN [m |-> m, st |-> st, pc |-> p, res |-> Panic]
         ELSE branch(m, st, first_offset_byte.pc, first_offset_byte.res.val,
                     [m |-> a.m, st |-> a.st,
                      res |-> IF IsOk(a.res)
                              THEN Ok(IF a.res.val = 0 THEN 1 ELSE 0)
                              ELSE a.res])
         : first_offset_byte \in {next_byte(m, p)},
           a \in {ZOperand_value(operand, m, st)}})

\* 1OP:140 jump ?(label)
o_140_jump(m, st, p, operand) ==
    The({IF ~IsOk(a.res)
         THEN [m |-> a.m, st |-> a.st, pc |-> p, res |-> a.res]
         ELSE [m |-> a.m, st |-> a.st,
               pc |-> offset_pc(p, as_i16(a.res.val) - 2), res |-> Ok(0)]
         : a \in {ZOperand_value(operand, m, st)}})

\* 2OP:1 je a b ?(label): two operands; an operand that cannot be evaluated
\* makes the predicate false.
o_1_je(m, st, p, operands) ==
    The({The({
        IF ~IsOk(first_offset_byte.res)
        THEN [m |-> m, st |-> st, pc |-> p, res |-> Panic]
        ELSE branch(m, st, first_offset_byte.pc, first_offset_byte.res.val,
                    [m |-> second_val.m, st |-> second_val.st,
                     res |-> Ok(IF /\ IsOk(first_val.res)
                                   /\ IsOk(second_val.res)
                                   /\ first_val.res.val = second_val.res.val
                                THEN 1 ELSE 0)])
        : second_val \in {ZOperand_value(operands[2], first_val.m,
                                         first_val.st)}})
        : first_offset_byte \in {next_byte(m, p)},
          first_val \in {ZOperand_value(operands[1], m, st)}})

\* The closure of inc_chk: the variable is read, incremented (overflowing_add)
\* and written, then the test value is evaluated: result > test_value on u16.
inc_chk_test(m, st, variable, operand) ==
    The({
        IF ~IsOk(old_value.res) THEN old_value
        ELSE The({
            IF ~IsOk(written.res) THEN written
            ELSE The({
                IF ~IsOk(test_value.res) THEN test_value
                ELSE [m |-> test_value.m, st |-> test_value.st,
                      res |-> Ok(IF (old_value.res.val + 1) % U16
                                        > test_value.res.val
                                 THEN 1 ELSE 0)]
                : test_value \in {ZOperand_value(operand, written.m,
                                                 written.st)}})
            : written \in {write_variable(old_value.m, old_value.st, variable,
                                          (old_value.res.val + 1) % U16)}})
        : old_value \in {read_variable(m, st, variable)}})

\* 2OP:5 inc_chk (variable) value ?(label): result > test_value on u16.
o_5_inc_chk(m, st, p, operands) ==
    The({
        IF ~IsOk(named.res)
        THEN [m |-> named.m, st |-> named.st, pc |-> p, res |-> named.res]
        ELSE IF ~IsOk(first_offset_byte.res)
        THEN [m |-> named.m, st |-> named.st, pc |-> p, res |-> Panic]
        ELSE branch(named.m, named.st, first_offset_byte.pc,
                    first_offset_byte.res.val,
                    inc_chk_test(named.m, named.st,
                                 ZVariable_from_u8(named.res.val % 256),
                                 operands[2]))
        : named \in {ZOperand_value(operands[1], m, st)},
          first_offset_byte \in {next_byte(m, p)}})

\* impl From<ZOperand> for ZVariable: constants only, anything else is
\* unimplemented!().
ZVariable_from_ZOperand(operand) ==
    IF operand.kind = "SmallConstant" \/ operand.kind = "LargeConstant"
    THEN Ok(operand.val % 256)
    ELSE Panic

\* 2OP:13 store (variable) value
o_13_store(m, st, p, operands) ==
    The({
        IF ~IsOk(variable)
        THEN [m |-> m, st |-> st, pc |-> p, res |-> Panic]
        ELSE IF ~IsOk(value.res)
        THEN [m |-> value.m, st |-> value.st, pc |-> p, res |-> value.res]
        ELSE The({[m |-> written.m, st |-> written.st, pc |-> p,
                   res |-> written.res]
                  : written \in {write_variable(value.m, value.st,
                                      ZVariable_from_u8(variable.val),
                                      value.res.val)}})
        : variable \in {ZVariable_from_ZOperand(operands[1])},
          value \in {ZOperand_value(operands[2], m, st)}})

\* The two values of a storing 2OP instruction and its store byte, read
\* first: [m, st, pc, res, lhs, rhs, store].
store_operands(m, st, p, operands) ==
    The({
        IF ~IsOk(store.res)
        THEN [m |-> m, st |-> st, pc |-> p, res |-> Panic,
              lhs |-> 0, rhs |-> 0, store |-> Stack]
        ELSE IF ~IsOk(lhs.res)
        THEN [m |-> lhs.m, st |-> lhs.st, pc |-> store.pc, res |-> lhs.res,
              lhs |-> 0, rhs |-> 0, store |-> Stack]
        ELSE The({[m |-> rhs.m, st |-> rhs.st, pc |-> store.pc,
                   res |-> rhs.res,
                   lhs |-> lhs.res.val, rhs |-> rhs.res.val,
                   store |-> ZVariable_from_u8(store.res.val)]
                  : rhs \in {ZOperand_value(operands[2], lhs.m, lhs.st)}})
        : store \in {next_byte(m, p)},
          lhs \in {ZOperand_value(operands[1], m, st)}})

\* A storing instruction: the value is written to the store variable.
stored(r, value) ==
    IF ~IsOk(r.res) THEN [m |-> r.m, st |-> r.st, pc |-> r.pc, res |-> r.res]
    ELSE The({[m |-> written.m, st |-> written.st, pc |-> r.pc,
               res |-> written.res]
              : written \in {write_variable(r.m, r.st, r.store, value)}})

\* add that fails when the sum leaves u16.
o_20_add_checked(m, st, p, operands) ==
    The({IF IsOk(r.res) /\ r.lhs + r.rhs >= U16
         THEN [m |-> r.m, st |-> r.st, pc |-> r.pc, res |-> Panic]
         ELSE stored(r, (r.lhs + r.rhs) % U16)
         : r \in {store_operands(m, st, p, operands)}})

\* 2OP:20 add a b -> (result): lhs.overflowing_add(rhs)
o_20_add(m, st, p, operands) ==
    The({stored(r, (r.lhs + r.rhs) % U16)
         : r \in {store_operands(m, st, p, operands)}})

\* 2OP:21 sub a b -> (result): (lhs as i16).overflowing_sub(rhs as i16) as u16
o_21_sub(m, st, p, operands) ==
    The({stored(r, (as_i16(r.lhs) - as_i16(r.rhs) + 2 * U16) % U16)
         : r \in {store_operands(m, st, p, operands)}})

\* 2OP:9 and a b -> (result)
o_9_and(m, st, p, operands) ==
    The({stored(r, u8_and(r.lhs, r.rhs))
         : r \in {store_operands(m, st, p, operands)}})

\* 2OP:15 loadw array word-index -> (result), 2OP:16 loadb array byte-index
\* -> (result): `scale` is 2 for loadw and 1 for loadb.
o_15_loadw_o_16_loadb(m, st, p, operands, scale) ==
    The({
        LET by == u16_mul(scale, r.rhs)
            byte_address == ByteAddress_inc_by(r.lhs, by.val)
            value == IF scale = 2 THEN read_word(m, byte_address.val)
                     ELSE read_byte(m, byte_address.val)
        IN  IF IsOk(r.res)
               /\ (~IsOk(by) \/ ~IsOk(byte_address) \/ ~IsOk(value))
            THEN [m |-> r.m, st |-> r.st, pc |-> r.pc, res |-> Panic]
            ELSE stored(r, value.val)
        : r \in {store_operands(m, st, p, operands)}})

\* VAR:229 print_char, VAR:230 print_num: the first operand is evaluated and
\* printed.
o_229_print_char_o_230_print_num(m, st, p, operands) ==
    The({[m |-> value.m, st |-> value.st, pc |-> p,
          res |-> IF IsOk(value.res) THEN Ok(0) ELSE value.res]
         : value \in {ZOperand_value(operands[1], m, st)}})

----------------------------------------------------------------------------
(* Addresses.  A ZOffset is a usize: the products below are not reduced to  *)
(* 16 bits.                                                                 *)

\* From<WordAddress> for ZOffset with the product kept in a u16.
ZOffset_from_WordAddress_u16(a) == (a * 2) % U16

\* From<ByteAddress> for ZOffset: ba.0 as usize
ZOffset_from_ByteAddress(a) == a

\* From<WordAddress> for ZOffset: usize::from(ba.0) * 2
ZOffset_from_WordAddress(a) == a * 2

\* PackedAddress::new
PackedAddress_new(val, ver) ==
    [val |-> val, multiplier |-> IF ver = 3 THEN 2 ELSE 4, offset |-> 0]

\* From<PackedAddress> for ZOffset
ZOffset_from_PackedAddress(pa) == pa.val * pa.multiplier + pa.offset

----------------------------------------------------------------------------
(* The text decoder (zscii.rs).  A decoded string is the sequence of its    *)
(* characters; a decoding is [res, next, depth]: the string or the failure, *)
(* the address after the last word read, and how deep abbreviations were    *)
(* expanded inside each other.                                              *)

V2_TO_4_TABLE ==
    <<"a", "b", "c", "d", "e", "f", "g", "h", "i", "j", "k", "l", "m",
      "n", "o", "p", "q", "r", "s", "t", "u", "v", "w", "x", "y", "z",
      "A", "B", "C", "D", "E", "F", "G", "H", "I", "J", "K", "L", "M",
      "N", "O", "P", "Q", "R", "S", "T", "U", "V", "W", "X", "Y", "Z",
      " ", "\n", "0", "1", "2", "3", "4", "5", "6", "7", "8", "9", ".",
      ",", "!", "?", "_", "#", "'", "\"", "/", "\\", "-", ":", "(", ")">>

\* Header::abbrev_location
abbrev_location(m) == read_word(m, HOF_ABBREV_LOCATION)

\* break_apart_word with the three codes taken one bit too low.
break_apart_word_shifted(word) ==
    [done |-> (word \div 32768) % 2 = 1,
     bytes |-> <<(word \div 2048) % 32, (word \div 64) % 32,
                 (word \div 2) % 32>>]

\* break_apart_word: bit 15, then bits 14-10, 9-5 and 4-0.
break_apart_word(word) ==
    [done |-> (word \div 32768) % 2 = 1,
     bytes |-> <<(word \div 1024) % 32, (word \div 32) % 32, word % 32>>]

\* The decoder's variables before the first word.
ZstrStart ==
    [zstr |-> <<>>, next_char_offset |-> 0, abbrev_table |-> 0, depth |-> 0,
     res |-> Ok(0)]

RECURSIVE read_abbrev(_, _, _, _, _)

\* The body of `for byte in bytes.iter()` of read_zstr on the decoder's
\* variables d; `?` on read_abbrev leaves the loop with the error.
zstr_byte(m, abbrev_offset, path, d, byte) ==
    IF ~IsOk(d.res) THEN d
    ELSE IF d.abbrev_table > 0
    THEN The({IF IsOk(r.res)
              THEN [d EXCEPT !.zstr = d.zstr \o r.res.val,
                             !.next_char_offset = 0,
                             !.abbrev_table = 0,
                             !.depth = IF r.depth + 1 > d.depth
                                       THEN r.depth + 1 ELSE d.depth]
              ELSE [d EXCEPT !.res = r.res,
                             !.depth = IF r.depth + 1 > d.depth
                                       THEN r.depth + 1 ELSE d.depth]
              : r \in {read_abbrev(m, abbrev_offset, d.abbrev_table, byte,
                                   path)}})
    ELSE CASE byte = 0 ->
                [d EXCEPT !.zstr = Append(d.zstr, " "),
                          !.next_char_offset = 0]
           [] byte \in {1, 2, 3} ->
                [d EXCEPT !.abbrev_table = byte, !.next_char_offset = 0]
           [] byte = 4 -> [d EXCEPT !.next_char_offset = 26]
           [] byte = 5 -> [d EXCEPT !.next_char_offset = 52]
           [] OTHER ->
                [d EXCEPT !.zstr = Append(d.zstr,
                              V2_TO_4_TABLE[d.next_char_offset + byte - 6 + 1]),
                          !.next_char_offset = 0]

\* The three codes of one word.
zstr_word(m, abbrev_offset, path, d, bytes) ==
    The({The({zstr_byte(m, abbrev_offset, path, d2, bytes[3])
              : d2 \in {zstr_byte(m, abbrev_offset, path, d1, bytes[2])}})
         : d1 \in {zstr_byte(m, abbrev_offset, path, d, bytes[1])}})

\* read_zstr with the shift forgotten at the end of each word.
RECURSIVE read_zstr_shift_per_word(_, _, _, _, _)
read_zstr_shift_per_word(m, abbrev_offset, at, path, d) ==
    The({
        IF ~IsOk(word)
        THEN [res |-> Panic, next |-> at, depth |-> d.depth]
        ELSE The({
            IF ~IsOk(after.res)
            THEN [res |-> after.res, next |-> at + 2, depth |-> after.depth]
            ELSE IF break_apart_word(word.val).done
            THEN [res |-> Ok(after.zstr), next |-> at + 2,
                  depth |-> after.depth]
            ELSE read_zstr_shift_per_word(m, abbrev_offset, at + 2, path,
                     [after EXCEPT !.next_char_offset = 0])
            : after \in {zstr_word(m, abbrev_offset, path, d,
                                   break_apart_word(word.val).bytes)}})
        : word \in {read_word(m, at)}})

\* read_zstr: `loop { word = next_word()?; ...; if done { break } }`, the
\* words read from `at` on; next_char_offset and abbrev_table live across
\* the words.  Reading past the end of memory panics.
RECURSIVE read_zstr(_, _, _, _, _)
read_zstr(m, abbrev_offset, at, path, d) ==
    The({
        IF ~IsOk(word)
        THEN [res |-> Panic, next |-> at, depth |-> d.depth]
        ELSE The({
            IF ~IsOk(after.res)
            THEN [res |-> after.res, next |-> at + 2, depth |-> after.depth]
            ELSE IF break_apart_word(word.val).done
            THEN [res |-> Ok(after.zstr), next |-> at + 2,
                  depth |-> after.depth]
            ELSE read_zstr(m, abbrev_offset, at + 2, path, after)
            : after \in {zstr_word(m, abbrev_offset, path, d,
                                   break_apart_word(word.val).bytes)}})
        : word \in {read_word(m, at)}})

\* read_zstr_from_memory: the words are read from a copy of the offset.
\* `path` holds the offsets of the abbreviations being expanded around this
\* string.
read_zstr_from_memory(m, abbrev_offset, offset, path) ==
    read_zstr(m, abbrev_offset, offset, path, ZstrStart)

\* read_abbrev: the entry 32 * (abbrev_table - 1) + abbrev_number of the
\* table holds the word address of the string.  The expansion is a plain
\* recursive call: an abbreviation whose string expands it again recurses
\* without end, until the thread's stack is exhausted ("Unbounded").
read_abbrev(m, abbrev_offset, abbrev_table, abbrev_number, path) ==
    LET entry_number == 32 * (abbrev_table - 1) + abbrev_number
        entry_address == ByteAddress_inc_by(abbrev_offset, entry_number * 2)
        abbrev_address == read_word(m, entry_address.val)
        offset == ZOffset_from_WordAddress(abbrev_address.val)
    IN  IF ~IsOk(entry_address) \/ ~IsOk(abbrev_address)
        THEN [res |-> Panic, next |-> 0, depth |-> 0]
        ELSE IF offset \in path
        THEN [res |-> Err("Unbounded", offset), next |-> 0,
              depth |-> Cardinality(path)]
        ELSE read_zstr_from_memory(m, abbrev_offset, offset,
                                   path \cup {offset})

\* read_zstr_from_pc that leaves the pc after the first word.
read_zstr_from_pc_one_word(m, abbrev_offset, p) ==
    The({[res |-> r.res, pc |-> p + 2, depth |-> r.depth]
         : r \in {read_zstr(m, abbrev_offset, p, {}, ZstrStart)}})

\* read_zstr_from_pc: the words are pc.next_word(), so the pc ends after
\* the last word read.
read_zstr_from_pc(m, abbrev_offset, p) ==
    The({[res |-> r.res, pc |-> r.next, depth |-> r.depth]
         : r \in {read_zstr(m, abbrev_offset, p, {}, ZstrStart)}})

\* 0OP:178 print (literal-string)
o_178_print(m, st, p, abbrev_offset) ==
    The({[m |-> m, st |-> st, pc |-> zstr.pc,
          res |-> IF IsOk(zstr.res) THEN Ok(0) ELSE zstr.res]
         : zstr \in {read_zstr_from_pc(m, abbrev_offset, p)}})

\* The match of each opcode table: the handler of an opcode number, or
\* unimplemented(..) (UnknownOpcode), or the panic! of the var table.
dispatch(table, opcode) ==
    CASE table = "0op" ->
            (CASE opcode = 0 -> "rtrue"
               [] opcode = 2 -> "print"
               [] opcode = 11 -> "new_line"
               [] OTHER -> "UnknownOpcode")
      [] table = "1op" ->
            (CASE opcode = 0 -> "jz"
               [] opcode = 11 -> "ret"
               [] opcode = 12 -> "jump"
               [] OTHER -> "UnknownOpcode")
      [] table = "long" ->
            (CASE opcode = 1 -> "je"
               [] opcode = 5 -> "inc_chk"
               [] opcode = 9 -> "and"
               [] opcode = 10 -> "test_attr"
               [] opcode = 13 -> "store"
               [] opcode = 15 -> "loadw"
               [] opcode = 16 -> "loadb"
               [] opcode = 20 -> "add"
               [] opcode = 21 -> "sub"
               [] OTHER -> "UnknownOpcode")
      [] table = "var" ->
            (CASE opcode = 0 -> "call"
               [] opcode = 1 -> "storew"
               [] opcode = 3 -> "put_prop"
               [] opcode = 5 -> "print_char"
               [] opcode = 6 -> "print_num"
               [] OTHER -> "Panic")
      [] OTHER -> "UnknownOpcode"

\* The handler `handler` run on the operands, with the pc after them.
\* test_attr and put_prop are unimplemented!(); new_line only prints.
call_handler(handler, m, st, p, ver, operands) ==
    CASE handler = "rtrue" -> o_176_rtrue(m, st, p)
      [] handler = "jz" -> o_128_jz(m, st, p, operands[1])
      [] handler = "ret" -> o_139_ret(m, st, p, operands[1])
      [] handler = "jump" -> o_140_jump(m, st, p, operands[1])
      [] handler = "je" -> o_1_je(m, st, p, operands)
      [] handler = "inc_chk" -> o_5_inc_chk(m, st, p, operands)
      [] handler = "and" -> o_9_and(m, st, p, operands)
      [] handler = "store" -> o_13_store(m, st, p, operands)
      [] handler = "loadw" -> o_15_loadw_o_16_loadb(m, st, p, operands, 2)
      [] handler = "loadb" -> o_15_loadw_o_16_loadb(m, st, p, operands, 1)
      [] handler = "add" -> o_20_add(m, st, p, operands)
      [] handler = "sub" -> o_21_sub(m, st, p, operands)
      [] handler = "call" -> o_224_call(m, st, p, ver, operands)
      [] handler = "storew" ->
            The({[m |-> w.m, st |-> w.st, pc |-> p, res |-> w.res]
                 : w \in {o_225_storew(m, st, operands)}})
      [] handler \in {"print_char", "print_num"} ->
            o_229_print_char_o_230_print_num(m, st, p, operands)
      [] handler = "new_line" -> [m |-> m, st |-> st, pc |-> p, res |-> Ok(0)]
      [] handler = "test_attr" ->
            [m |-> m, st |-> st, pc |-> next_byte(m, p).pc, res |-> Panic]
      [] handler = "UnknownOpcode" ->
            [m |-> m, st |-> st, pc |-> p, res |-> Err("UnknownOpcode", 0)]
      [] handler \in {"put_prop", "Panic"} ->
            [m |-> m, st |-> st, pc |-> p, res |-> Panic]
      [] handler = "print" ->
            IF IsOk(abbrev_location(m))
            THEN o_178_print(m, st, p, abbrev_location(m).val)
            ELSE [m |-> m, st |-> st, pc |-> p, res |-> Panic]
      [] OTHER -> [m |-> m, st |-> st, pc |-> p, res |-> Ok(0)]

\* The operands an opcode byte's form reads after it: [pc, res, operands].
\* The short form reads one operand of the kind in the byte, the var form
\* the kinds byte and its operands, the long form two operands.
read_operands(m, p, d) ==
    LET none == <<NoOperand, NoOperand, NoOperand, NoOperand>>
        one == read_operand(m, p, d.optypes[1])
        optypes == next_byte(m, p)
        two == read_operand(m, one.pc, d.optypes[2])
    IN  CASE d.form = "short" ->
                [pc |-> one.pc, res |-> one.res,
                 operands |-> [none EXCEPT ![1] = one.operand]]
          [] d.form = "var" ->
                IF ~IsOk(optypes.res)
                THEN [pc |-> p, res |-> Panic, operands |-> none]
                ELSE var_operands(m, optypes.pc, optypes.res.val, 0, none)
          [] d.form = "long" ->
                [pc |-> two.pc,
                 res |-> IF IsOk(one.res) THEN two.res ELSE one.res,
                 operands |-> [none EXCEPT ![1] = one.operand,
                                           ![2] = two.operand]]
          [] OTHER -> [pc |-> p, res |-> Ok(0), operands |-> none]

\* ZProcessor::execute_opcode with the handler it reaches: the opcode byte
\* at the pc, the operands of its form, the handler of its table.  The step
\* is [m, st, pc, res] with the handler's name, the operands read and the pc
\* after them.
execute_instruction(m, st, p, ver) ==
    The({The({The({The({
        IF ~IsOk(byte.res) \/ ~IsOk(r.res)
        THEN [m |-> m, st |-> st, pc |-> r.pc, res |-> Panic,
              handler |-> "Panic", operands |-> r.operands, after |-> r.pc,
              form |-> d.form]
        ELSE The({
            [m |-> step.m, st |-> step.st, pc |-> step.pc,
             res |-> IF handler = "UnknownOpcode"
                     THEN Err("UnknownOpcode", d.opcode) ELSE step.res,
             handler |-> handler, operands |-> r.operands, after |-> r.pc,
             form |-> d.form] :
            step \in {call_handler(handler, m, st, r.pc, ver, r.operands)}})
        : handler \in {dispatch(IF d.form = "short"
                                THEN IF r.operands[1].kind = "Omitted"
                                     THEN "0op" ELSE "1op"
                                ELSE d.table,
                                d.opcode)}})
        : r \in {read_operands(m, byte.pc, d)}})
        : d \in {execute_opcode(ver, byte.res.val)}})
        : byte \in {next_byte(m, p)}})

----------------------------------------------------------------------------
(* Recording a call: the call, its result, the state before and after.     *)

Running == res.kind # "Panic"

Called(o, m, st, r, l) ==
    /\ op' = o
    /\ res' = r
    /\ pre_mem' = zmem
    /\ pre_stack' = zstack
    /\ zmem' = m
    /\ zstack' = st
    /\ lifo' = l
    /\ nops' = nops + 1
    /\ UNCHANGED <<global_location, overflow_checks, pc, version>>

\* A handler that moves the pc.
Executed(o, step, l) ==
    /\ op' = o
    /\ res' = step.res
    /\ pre_mem' = zmem
    /\ pre_stack' = zstack
    /\ zmem' = step.m
    /\ zstack' = step.st
    /\ pc' = step.pc
    /\ lifo' = l
    /\ nops' = nops + 1
    /\ UNCHANGED <<global_location, overflow_checks, version>>

----------------------------------------------------------------------------
(* The memory image under its operations.                                  *)
(* A story image of MemSize bytes: the header words name the region bases  *)
(* and the globals table; every other byte gets a value of its own.        *)

StoryImage(static_base, high_base, globals) ==
    [i \in 0 .. MemSize - 1 |->
        CASE i = HOF_VERSION -> 3
          [] i = HOF_HIGH_MEMORY_BASE -> high_base \div 256
          [] i = HOF_HIGH_MEMORY_BASE + 1 -> high_base % 256
          [] i = HOF_GLOBAL_LOCATION -> globals \div 256
          [] i = HOF_GLOBAL_LOCATION + 1 -> globals % 256
          [] i = HOF_STATIC_MEMORY_BASE -> static_base \div 256
          [] i = HOF_STATIC_MEMORY_BASE + 1 -> static_base % 256
          [] OTHER -> (i * 7 + 1) % 256]

StaticBases == {MemSize - 12, MemSize - 11}
HighBase == MemSize - 6
GlobalsBase == MemSize - 16

\* Offsets the calls are tried at: the header, dynamic memory up to its last
\* byte, the first static byte, high memory, the last byte of the image.
MemOffsets ==
    {1, HOF_STATIC_MEMORY_BASE, zmem.static_mem - 2, zmem.static_mem - 1,
     zmem.static_mem, zmem.high_mem, MemSize - 1}

ByteVals == {0, 165}
WordVals == {4660, 65535}
GlobalIndexes == {0, 2, MAX_GLOBAL, MAX_GLOBAL + 1}

\* storew operand triples: inside dynamic memory, across static_base, an index
\* whose doubling leaves u16, an address sum that leaves u16, a missing operand.
StorewOperands ==
    {<<LargeConstant(GlobalsBase), SmallConstant(1), LargeConstant(4660)>>,
     <<LargeConstant(zmem.static_mem - 3), SmallConstant(1), LargeConstant(4660)>>,
     <<LargeConstant(zmem.static_mem), SmallConstant(0), LargeConstant(4660)>>,
     <<LargeConstant(GlobalsBase), LargeConstant(32769), LargeConstant(4660)>>,
     <<LargeConstant(65534), SmallConstant(2), Var(Global(0))>>,
     <<LargeConstant(GlobalsBase), SmallConstant(1), NoOperand>>}

InitMem ==
    /\ \E sb \in StaticBases :
          zmem = ZMemory_new(StoryImage(sb, HighBase, GlobalsBase))
    /\ global_location = word_from_slice(zmem.bytes, HOF_GLOBAL_LOCATION)
    /\ overflow_checks \in BOOLEAN
    /\ zstack = ZStack_new
    /\ op = [name |-> "new"]
    /\ res = Ok(0)
    /\ pre_mem = zmem
    /\ pre_stack = zstack
    /\ lifo = <<>>
    /\ nops = 0
    /\ pc = word_from_slice(zmem.bytes, HOF_START_PC)
    /\ version = byte_from_slice(zmem.bytes, HOF_VERSION)

MemRunning == Running /\ nops < MaxMemOps

ReadByte ==
    \E at \in MemOffsets :
        /\ MemRunning
        /\ Called([name |-> "read_byte", at |-> at],
                  zmem, zstack, read_byte(zmem, at), <<>>)

WriteByte ==
    \E at \in MemOffsets, val \in ByteVals :
        LET w == write_byte(zmem, at, val)
        IN  /\ MemRunning
            /\ Called([name |-> "write_byte", at |-> at, val |-> val],
                      w.m, zstack, w.res, <<>>)

ReadWord ==
    \E at \in MemOffsets :
        /\ MemRunning
        /\ Called([name |-> "read_word", at |-> at],
                  zmem, zstack, read_word(zmem, at), <<>>)

WriteWord ==
    \E at \in MemOffsets, val \in WordVals :
        LET w == write_word(zmem, at, val)
        IN  /\ MemRunning
            /\ Called([name |-> "write_word", at |-> at, val |-> val],
                      w.m, zstack, w.res, <<>>)

Storew ==
    \E operands \in StorewOperands :
        LET w == o_225_storew(zmem, zstack, operands)
        IN  /\ MemRunning
            /\ Called([name |-> "storew", operands |-> operands],
                      w.m, w.st, w.res, <<>>)

WriteGlobal ==
    \E g \in GlobalIndexes, val \in WordVals :
        LET w == write_variable(zmem, zstack, Global(g), val)
        IN  /\ MemRunning
            /\ Called([name |-> "write_variable", var |-> Global(g), val |-> val],
                      w.m, w.st, w.res, <<>>)

ReadGlobal ==
    \E g \in GlobalIndexes :
        LET r == read_variable(zmem, zstack, Global(g))
        IN  /\ MemRunning
            /\ Called([name |-> "read_variable", var |-> Global(g)],
                      r.m, r.st, r.res, <<>>)

NextMem ==
    \/ ReadByte
    \/ WriteByte
    \/ ReadWord
    \/ WriteWord
    \/ Storew
    \/ WriteGlobal
    \/ ReadGlobal

SpecMem == InitMem /\ [][NextMem]_vars

----------------------------------------------------------------------------
(* The call stack under its operations.                                    *)
(* The runs start from the stack of ZStack::new.  Its first step may be    *)
(* the setup of one of the repository's overflow tests: TEST_FRAMES frames *)
(* of 8 locals, then nothing more, or the frame that does not fit, or the  *)
(* four words that still fit.                                              *)

RECURSIVE PushFrames(_, _)
PushFrames(st, k) ==
    LET r == push_frame(st, 4096, 8, Stack, <<>>)
    IN  IF k = 0 THEN st
        ELSE IF IsOk(r.res) THEN PushFrames(r.st, k - 1) ELSE r.st

RECURSIVE PushWords(_, _)
PushWords(st, words) ==
    LET r == push_word(st, Head(words))
    IN  IF words = <<>> THEN st
        ELSE IF IsOk(r.res) THEN PushWords(r.st, Tail(words)) ELSE r.st

\* test_stack_frame_overflow and test_stack_overflow, up to their last call.
TestStack(test) ==
    LET frames == PushFrames(zstack, TEST_FRAMES)
    IN  IF test = "frames" THEN frames
        ELSE IF test = "frame_overflow"
        THEN push_frame(frames, 8192, 8, Stack, <<>>).st
        ELSE PushWords(frames, <<3, 4, 5, 6>>)

\* push_frame arguments: <<return_pc, num_locals, return_var, operands>>.
Calls ==
    {<<2059333645, 5, Global(3), <<34, 38>> >>,
     <<2059333645, 2, Stack, <<11, 24, 36, 48>> >>,
     <<4096, 8, Stack, <<>> >>,
     <<305419896, 0, Local(5), <<>> >>}

StackWords == {13689, 43981}

InitStack ==
    /\ zmem = ZMemory_new(StoryImage(MemSize - 12, HighBase, GlobalsBase))
    /\ global_location = word_from_slice(zmem.bytes, HOF_GLOBAL_LOCATION)
    /\ overflow_checks = TRUE
    /\ zstack = ZStack_new
    /\ op = [name |-> "new"]
    /\ res = Ok(0)
    /\ pre_mem = zmem
    /\ pre_stack = zstack
    /\ lifo = <<>>
    /\ nops = 0
    /\ pc = word_from_slice(zmem.bytes, HOF_START_PC)
    /\ version = byte_from_slice(zmem.bytes, HOF_VERSION)

StackRunning == Running /\ nops < MaxStackOps

\* The word the next pop is expected to return: the last word pushed and not
\* yet popped, with the call that pushed it; val -1 when nothing is known.
Expected ==
    IF lifo = <<>> THEN [val |-> -1, by |-> "none"] ELSE lifo[Len(lifo)]

Pushed(r, val, by) ==
    IF IsOk(r) THEN Append(lifo, [val |-> val, by |-> by]) ELSE <<>>

Popped(r) ==
    IF IsOk(r) /\ lifo # <<>> THEN SubSeq(lifo, 1, Len(lifo) - 1) ELSE <<>>

TestSetup ==
    \E test \in {"frames", "frame_overflow", "words"} :
        /\ nops = 0
        /\ op.name = "new"
        /\ op' = [name |-> "test_setup", test |-> test]
        /\ zstack' = TestStack(test)
        /\ pre_stack' = zstack'
        /\ UNCHANGED <<pc, version, zmem, global_location, overflow_checks, res, pre_mem,
                       lifo, nops>>

PushFrame ==
    \E c \in Calls :
        LET r == push_frame(zstack, c[1], c[2], c[3], c[4])
        IN  /\ StackRunning
            /\ Called([name |-> "push_frame", return_pc |-> c[1],
                       num_locals |-> c[2], return_var |-> c[3],
                       operands |-> c[4]],
                      zmem, r.st, r.res, <<>>)

PopFrame ==
    LET r == pop_frame(zstack)
    IN  /\ StackRunning
        /\ Called([name |-> "pop_frame"], zmem, r.st, r.res, <<>>)

PushWord ==
    \E val \in StackWords :
        LET r == push_word(zstack, val)
        IN  /\ StackRunning
            /\ Called([name |-> "push_word", val |-> val],
                      zmem, r.st, r.res, Pushed(r.res, val, "push_word"))

PopWord ==
    LET r == pop_word(zstack)
    IN  /\ StackRunning
        /\ Called([name |-> "pop_word", expected |-> Expected],
                  zmem, r.st, r.res, Popped(r.res))

WriteStackVariable ==
    \E val \in StackWords :
        LET r == write_variable(zmem, zstack, Stack, val)
        IN  /\ StackRunning
            /\ Called([name |-> "write_variable", var |-> Stack, val |-> val],
                      r.m, r.st, r.res, Pushed(r.res, val, "write_variable"))

ReadStackVariable ==
    LET r == read_variable(zmem, zstack, Stack)
    IN  /\ StackRunning
        /\ Called([name |-> "read_variable", var |-> Stack,
                   expected |-> Expected],
                  r.m, r.st, r.res, Popped(r.res))

NextStack ==
    \/ TestSetup
    \/ PushFrame
    \/ PopFrame
    \/ PushWord
    \/ PopWord
    \/ WriteStackVariable
    \/ ReadStackVariable

SpecStack == InitStack /\ [][NextStack]_vars

----------------------------------------------------------------------------
(* The locals and the variable namespace as the running program uses them.  *)
(* ZProcessor::run stops at the first call that returns an error, so no     *)
(* call follows one.  lifo holds the values the current frame's locals were *)
(* given by push_frame and by the writes since.                             *)

LocalIndexes == {0, 1, 2, 5}
VariableSet ==
    {Stack, Local(0), Local(1), Local(5), Local(MAX_LOCAL + 1),
     Global(0), Global(1), Global(2)}

InitVars == InitStack

VarsRunning == IsOk(res) /\ nops < MaxVarOps

\* The locals of a frame pushed with n locals and these operands.
GivenLocals(n, operands) ==
    [i \in 1 .. n |-> IF i <= Len(operands) THEN operands[i] ELSE 0]

\* The locals after local l was given val.
Given(l, val) ==
    IF l < Len(lifo) THEN [lifo EXCEPT ![l + 1] = val] ELSE lifo

\* The run starts in the base frame, in the frame of one of the calls, or
\* on the stack of test_stack_overflow before its last push (no room left).
VarsSetup ==
    /\ nops = 0
    /\ op.name = "new"
    /\ \/ /\ op' = [name |-> "test_setup", test |-> "words"]
          /\ zstack' = TestStack("words")
          /\ lifo' = GivenLocals(8, <<>>)
       \/ \E c \in Calls :
             /\ op' = [name |-> "test_setup", test |-> "frame"]
             /\ zstack' = push_frame(zstack, c[1], c[2], c[3], c[4]).st
             /\ lifo' = GivenLocals(c[2], c[4])
    /\ pre_stack' = zstack'
    /\ UNCHANGED <<pc, version, zmem, global_location, overflow_checks, res, pre_mem, nops>>

VarsPushFrame ==
    \E c \in Calls :
        LET r == push_frame(zstack, c[1], c[2], c[3], c[4])
        IN  /\ VarsRunning
            /\ Called([name |-> "push_frame", return_pc |-> c[1],
                       num_locals |-> c[2], return_var |-> c[3],
                       operands |-> c[4]],
                      zmem, r.st, r.res,
                      IF IsOk(r.res) THEN GivenLocals(c[2], c[4]) ELSE lifo)

ReadLocal ==
    \E l \in LocalIndexes :
        LET r == read_local(zstack, l)
        IN  /\ VarsRunning
            /\ Called([name |-> "read_local", l |-> l],
                      zmem, r.st, r.res, lifo)

WriteLocal ==
    \E l \in LocalIndexes, val \in StackWords :
        LET r == write_local(zstack, l, val)
        IN  /\ VarsRunning
            /\ Called([name |-> "write_local", l |-> l, val |-> val],
                      zmem, r.st, r.res, Given(l, val))

ReadVariable ==
    \E var \in VariableSet :
        LET r == read_variable(zmem, zstack, var)
        IN  /\ VarsRunning
            /\ Called([name |-> "read_variable", var |-> var],
                      r.m, r.st, r.res, lifo)

WriteVariable ==
    \E var \in VariableSet, val \in StackWords :
        LET r == write_variable(zmem, zstack, var, val)
        IN  /\ VarsRunning
            /\ Called([name |-> "write_variable", var |-> var, val |-> val],
                      r.m, r.st, r.res,
                      IF var.tag = "Local" /\ IsOk(r.res)
                      THEN Given(var.idx, val) ELSE lifo)

NextVars ==
    \/ VarsSetup
    \/ VarsPushFrame
    \/ ReadLocal
    \/ WriteLocal
    \/ ReadVariable
    \/ WriteVariable

SpecVars == InitVars /\ [][NextVars]_vars

----------------------------------------------------------------------------
(* The byte encoding of variable names: every byte is decoded and encoded   *)
(* back, every variable a byte can name is encoded and decoded back.        *)

Bytes == 0 .. 255

EncodableVariables ==
    {Stack} \cup {Local(l) : l \in 0 .. MAX_LOCAL}
            \cup {Global(g) : g \in 0 .. MAX_GLOBAL}

InitCodec == InitStack

Decode ==
    \E b \in Bytes :
        /\ op.name = "new"
        /\ op' = [name |-> "decode", byte |-> b, var |-> ZVariable_from_u8(b),
                  back |-> u8_from_ZVariable(ZVariable_from_u8(b))]
        /\ UNCHANGED <<pc, version, zmem, zstack, global_location, overflow_checks, res,
                       pre_mem, pre_stack, lifo, nops>>

Encode ==
    \E v \in EncodableVariables :
        /\ op.name = "new"
        /\ op' = [name |-> "encode", var |-> v, byte |-> u8_from_ZVariable(v),
                  back |-> ZVariable_from_u8(u8_from_ZVariable(v).val)]
        /\ UNCHANGED <<pc, version, zmem, zstack, global_location, overflow_checks, res,
                       pre_mem, pre_stack, lifo, nops>>

NextCodec ==
    \/ Decode
    \/ Encode

SpecCodec == InitCodec /\ [][NextCodec]_vars

----------------------------------------------------------------------------
(* Routine calls and returns in a running story.  The image holds two       *)
(* routines and three store bytes; a call instruction is taken at the point *)
(* its handler starts, with the pc at the store byte and the operands       *)
(* decoded.  lifo holds, for every call not yet returned from, the caller's *)
(* state at the call.                                                       *)

Routine2 == 16   \* address of a routine: two locals, defaults 0x000b and 0x0016
Routine0 == 24   \* address of a routine without locals

\* Addresses of the store bytes: Stack, Local(0), Global(0).
CallSites == {Routine2 + 5, Routine2 + 6, Routine2 + 7}

CallImage(ver) ==
    [i \in 0 .. MemSize - 1 |->
        CASE i = HOF_VERSION -> ver
          [] i = HOF_HIGH_MEMORY_BASE + 1 -> Routine2
          [] i = HOF_START_PC + 1 -> Routine2 + 5
          [] i = HOF_GLOBAL_LOCATION + 1 -> HOF_START_PC + 2
          [] i = HOF_STATIC_MEMORY_BASE + 1 -> Routine2
          [] i = Routine2 -> 2
          [] i = Routine2 + 2 -> 11
          [] i = Routine2 + 4 -> 22
          [] i = Routine2 + 6 -> 1
          [] i = Routine2 + 7 -> 16
          [] OTHER -> 0]

\* The operands of the call instructions: a routine with or without an
\* argument, and the routine address 0.
CallOperands ==
    {<<LargeConstant(Routine2 \div make_packed_address(version, 1)),
       NoOperand, NoOperand, NoOperand>>,
     <<LargeConstant(Routine2 \div make_packed_address(version, 1)),
       SmallConstant(7), NoOperand, NoOperand>>,
     <<LargeConstant(Routine0 \div make_packed_address(version, 1)),
       NoOperand, NoOperand, NoOperand>>,
     <<LargeConstant(0), NoOperand, NoOperand, NoOperand>>}

RetOperands == {SmallConstant(7), Var(Stack)}

InitCall ==
    /\ \E ver \in {3, 5} : zmem = ZMemory_new(CallImage(ver))
    /\ global_location = word_from_slice(zmem.bytes, HOF_GLOBAL_LOCATION)
    /\ overflow_checks = TRUE
    /\ zstack = ZStack_new
    /\ op = [name |-> "new"]
    /\ res = Ok(0)
    /\ pre_mem = zmem
    /\ pre_stack = zstack
    /\ lifo = <<>>
    /\ nops = 0
    /\ pc = word_from_slice(zmem.bytes, HOF_START_PC)
    /\ version = byte_from_slice(zmem.bytes, HOF_VERSION)

CallRunning == IsOk(res) /\ nops < MaxCallOps

\* The caller at a call: the store byte's address and the caller's frame.
Caller(site) ==
    [site |-> site, store |-> ZVariable_from_u8(zmem.bytes[site]),
     st |-> zstack, m |-> zmem]

Call ==
    \E site \in CallSites, operands \in CallOperands :
        /\ CallRunning
        /\ LET step == o_224_call(zmem, zstack, site, version, operands)
           IN  Executed([name |-> "call", site |-> site, operands |-> operands],
                        step,
                        IF IsOk(step.res) THEN Append(lifo, Caller(site))
                        ELSE lifo)

Returned(name, value, step) ==
    Executed([name |-> name, value |-> value,
              caller |-> IF lifo = <<>> THEN <<>> ELSE <<lifo[Len(lifo)]>>],
             step,
             IF IsOk(step.res) /\ lifo # <<>>
             THEN SubSeq(lifo, 1, Len(lifo) - 1) ELSE lifo)

Rtrue ==
    /\ CallRunning
    /\ Returned("rtrue", 1, o_176_rtrue(zmem, zstack, pc))

Rfalse ==
    /\ CallRunning
    /\ Returned("rfalse", 0, o_177_rfalse(zmem, zstack, pc))

Ret ==
    \E operand \in RetOperands :
        /\ CallRunning
        /\ Returned("ret", ZOperand_value(operand, zmem, zstack).res.val,
                    o_139_ret(zmem, zstack, pc, operand))

NextCall ==
    \/ Call
    \/ Rtrue
    \/ Rfalse
    \/ Ret

SpecCall == InitCall /\ [][NextCall]_vars

----------------------------------------------------------------------------
(* The decoding of the first opcode byte, for every byte, in a V3 and in a  *)
(* V5 story.                                                                *)

InitDecode == InitCall

ExecuteOpcode ==
    \E b \in Bytes :
        /\ op.name = "new"
        /\ op' = [name |-> "execute_opcode", byte |-> b,
                  decoded |-> execute_opcode(version, b)]
        /\ pc' = pc + 1
        /\ UNCHANGED <<version, zmem, zstack, global_location,
                       overflow_checks, res, pre_mem, pre_stack, lifo, nops>>

NextDecode == ExecuteOpcode

SpecDecode == InitDecode /\ [][NextDecode]_vars

----------------------------------------------------------------------------
(* Instructions executed from the story's start pc.  The image holds a      *)
(* program at CodeBase; the story runs it inside a routine of two locals    *)
(* called from the base frame.                                              *)

CodeBase == 16

ExecImage(ver, code) ==
    [i \in 0 .. MemSize - 1 |->
        CASE i = HOF_VERSION -> ver
          [] i = HOF_HIGH_MEMORY_BASE + 1 -> CodeBase
          [] i = HOF_START_PC + 1 -> CodeBase
          [] i = HOF_GLOBAL_LOCATION + 1 -> HOF_START_PC + 2
          [] i = HOF_STATIC_MEMORY_BASE + 1 -> CodeBase
          [] i >= CodeBase /\ i < CodeBase + Len(code) -> code[i - CodeBase + 1]
          [] OTHER -> 0]

Prog(code, l0, l1) == [code |-> code, locals |-> <<l0, l1>>]

\* 16-bit values of the arithmetic: around 0, around the sign bit, and the
\* operands of test_add_overflow.
ArithVals == {0, 1, 98, 32767, 32768, 65530, 65535}

\* add (0xd4) and sub (0xd5) in the var form with two large constants, the
\* result stored on the stack, in L0 or in G0.
ArithPrograms ==
    {Prog(<<opc, 15, a \div 256, a % 256, b \div 256, b % 256, store>>, 5, 5) :
        opc \in {212, 213}, a \in ArithVals, b \in ArithVals,
        store \in {0, 1, 16}}

\* inc_chk (0xc5) of L0 against a large constant, branch on true by +7.
IncChkPrograms ==
    {Prog(<<197, 79, 1, t \div 256, t % 256, 199>>, l0, 5) :
        t \in {0, 5, 6, 32767, 32768, 65534},
        l0 \in {4, 5, 32767, 65533, 65535}}

\* jz (0x90 small constant) under every shape of branch: short and long
\* offsets, both polarities, offsets 0 and 1, negative offsets.
JzPrograms ==
    {Prog(<<144, a>> \o br, 5, 5) :
        a \in {0, 1},
        br \in {<<199>>, <<71>>, <<192>>, <<193>>, <<64>>, <<128, 9>>,
                <<0, 9>>, <<42, 171>>, <<63, 255>>, <<191, 254>>, <<0, 2>>}}

\* je in the long form and in the var form with one, two and three operands.
JePrograms ==
    {Prog(<<1, 5, 5, 199>>, 5, 5), Prog(<<1, 5, 3, 199>>, 5, 5),
     Prog(<<1, 5, 5, 71>>, 5, 5), Prog(<<97, 1, 2, 199>>, 5, 5),
     Prog(<<97, 1, 2, 199>>, 5, 3),
     Prog(<<193, 151, 2, 3, 5, 199>>, 0, 5),
     Prog(<<193, 151, 2, 3, 5, 199>>, 0, 3),
     Prog(<<193, 151, 2, 3, 5, 199>>, 0, 4),
     Prog(<<193, 151, 1, 3, 5, 199>>, 5, 0),
     Prog(<<193, 127, 5, 199>>, 5, 5), Prog(<<193, 127, 5, 71>>, 5, 5),
     Prog(<<193, 255, 199>>, 5, 5)}

\* The other opcodes, with operands of every kind and with omitted ones.
OtherPrograms ==
    {Prog(code, 5, 65535) :
        code \in {<<176>>, <<177>>, <<187>>, <<190>>, <<0>>, <<226, 255>>,
                  <<155, 7>>, <<171, 0>>, <<171, 2>>, <<139, 1, 2>>,
                  <<140, 0, 5>>, <<140, 255, 254>>, <<140, 128, 0>>, <<156, 2>>, <<172, 1>>,
                  <<13, 1, 45>>, <<13, 0, 45>>, <<77, 1, 45>>,
                  <<205, 127, 1>>, <<205, 255>>,
                  <<225, 83, 8, 1, 171, 205>>, <<225, 95, 8, 1>>,
                  <<230, 85, 1, 2, 3, 4>>, <<230, 93, 1, 2, 9>>,
                  <<230, 43, 1, 2, 1, 2>>, <<229, 223, 65>>,
                  <<229, 127, 65>>, <<230, 255>>,
                  <<9, 15, 60, 0>>, <<201, 127, 5, 0>>,
                  <<15, 8, 1, 0>>, <<16, 8, 1, 1>>, <<207, 127, 8, 0>>,
                  <<208, 255, 0>>, <<20, 3, 98, 0>>, <<116, 1, 2, 1>>,
                  <<21, 3, 98, 16>>, <<212, 127, 3, 0>>, <<213, 255, 0>>,
                  <<197, 127, 1, 199>>, <<5, 1, 5, 71>>, <<5, 16, 0, 199>>,
                  <<160, 1, 199>>, <<128, 0, 0, 199>>, <<10, 1, 2, 199>>,
                  <<227, 255>>}}

Programs ==
    ArithPrograms \cup IncChkPrograms \cup JzPrograms \cup JePrograms
        \cup OtherPrograms

InitExec ==
    /\ \E ver \in {3, 5}, prog \in Programs :
          /\ zmem = ZMemory_new(ExecImage(ver, prog.code))
          /\ zstack = push_frame(ZStack_new, CodeBase + 12, 2, Stack,
                                 prog.locals).st
    /\ global_location = word_from_slice(zmem.bytes, HOF_GLOBAL_LOCATION)
    /\ overflow_checks = TRUE
    /\ op = [name |-> "new"]
    /\ res = Ok(0)
    /\ pre_mem = zmem
    /\ pre_stack = zstack
    /\ lifo = <<>>
    /\ nops = 0
    /\ pc = word_from_slice(zmem.bytes, HOF_START_PC)
    /\ version = byte_from_slice(zmem.bytes, HOF_VERSION)

\* A loop that goes on after an error.
ExecRunning_after_error == nops < MaxExecOps

\* ZProcessor::run: while self.execute_opcode()? {}
ExecRunning == IsOk(res) /\ nops < MaxExecOps

ExecuteInstruction ==
    /\ ExecRunning
    /\ \E step \in {execute_instruction(zmem, zstack, pc, version)} :
           /\ Executed([name |-> "execute_opcode", at |-> pc,
                        handler |-> step.handler, form |-> step.form,
                        operands |-> step.operands, after |-> step.after],
                       step, lifo)

NextExec == ExecuteInstruction

SpecExec == InitExec /\ [][NextExec]_vars

----------------------------------------------------------------------------
(* Strings decoded.  The story holds a print instruction with its literal   *)
(* string, an abbreviation table of two entries and a second string.        *)

\* The layout of the images of this specification: the abbreviation table
\* (entries 0 and 1), the print opcode followed by its literal string, and
\* the second string.
ZstrLayout == [abbrev |-> 8, code |-> 17, str |-> 26]
AbbrevBase == ZstrLayout.abbrev
StrCode == ZstrLayout.code
AbbrevStr == ZstrLayout.str

\* assemble_word
assemble_word(end_of_string, c1, c2, c3) ==
    (IF end_of_string THEN 32768 ELSE 0) + (c1 % 32) * 1024 + (c2 % 32) * 32
        + (c3 % 32)

\* The bytes of a sequence of words, high byte first.
RECURSIVE WordBytes(_)
WordBytes(words) ==
    IF words = <<>> THEN <<>>
    ELSE <<Head(words) \div 256, Head(words) % 256>> \o WordBytes(Tail(words))

ZstrImage(e0, e1, main, abbr) ==
    [i \in 0 .. MemSize - 1 |->
        CASE i = HOF_VERSION -> 3
          [] i = HOF_HIGH_MEMORY_BASE + 1 -> StrCode - 1
          [] i = HOF_START_PC + 1 -> StrCode
          [] i = HOF_STATIC_MEMORY_BASE + 1 -> StrCode - 1
          [] i = HOF_ABBREV_LOCATION + 1 -> AbbrevBase
          [] i = AbbrevBase + 1 -> e0
          [] i = AbbrevBase + 3 -> e1
          [] i = StrCode -> 178
          [] i > StrCode /\ i <= StrCode + Len(main) -> main[i - StrCode]
          [] i >= AbbrevStr /\ i < AbbrevStr + Len(abbr) ->
                abbr[i - AbbrevStr + 1]
          [] OTHER -> 0]

\* Literal strings: plain letters, shifts (within a word, across words, one
\* after another, before the end), the code 6 after a shift to punctuation,
\* abbreviations (within a word, across words, after a shift), no end bit.
MainStrings ==
    {<<assemble_word(TRUE, 6, 7, 8)>>,
     <<assemble_word(TRUE, 0, 31, 0)>>,
     <<assemble_word(FALSE, 13, 10, 17), assemble_word(TRUE, 17, 20, 0)>>,
     <<assemble_word(FALSE, 4, 6, 5), assemble_word(TRUE, 8, 6, 31)>>,
     <<assemble_word(FALSE, 6, 7, 4), assemble_word(TRUE, 6, 6, 6)>>,
     <<assemble_word(FALSE, 6, 7, 5), assemble_word(TRUE, 7, 7, 31)>>,
     <<assemble_word(TRUE, 4, 5, 8)>>,
     <<assemble_word(TRUE, 5, 4, 8)>>,
     <<assemble_word(TRUE, 6, 7, 4)>>,
     <<assemble_word(TRUE, 5, 6, 7)>>,
     <<assemble_word(FALSE, 5, 6, 2), assemble_word(TRUE, 1, 6, 7)>>,
     <<assemble_word(FALSE, 5, 6, 0), assemble_word(TRUE, 13, 6, 7)>>,
     <<assemble_word(TRUE, 1, 0, 6)>>,
     <<assemble_word(TRUE, 6, 1, 1)>>,
     <<assemble_word(FALSE, 6, 6, 1), assemble_word(TRUE, 0, 7, 7)>>,
     <<assemble_word(TRUE, 4, 1, 0)>>,
     <<assemble_word(TRUE, 2, 0, 6)>>,
     <<assemble_word(FALSE, 6, 6, 6), assemble_word(FALSE, 7, 7, 7),
       assemble_word(FALSE, 8, 8, 8)>>}

\* Second strings: plain, with a shift, expanding entry 0 or entry 1.
AbbrevStrings ==
    {<<assemble_word(TRUE, 9, 10, 11)>>,
     <<assemble_word(FALSE, 4, 9, 6), assemble_word(TRUE, 5, 8, 0)>>,
     <<assemble_word(TRUE, 1, 0, 6)>>,
     <<assemble_word(FALSE, 1, 1, 6), assemble_word(TRUE, 7, 7, 7)>>}

\* Word addresses in the entries: the second string, its second word, the
\* literal string.
AbbrevEntries ==
    {AbbrevStr \div 2, AbbrevStr \div 2 + 1, (StrCode + 1) \div 2}

InitZstr ==
    /\ \E main \in MainStrings, abbr \in AbbrevStrings,
          e0 \in AbbrevEntries, e1 \in AbbrevEntries :
          zmem = ZMemory_new(ZstrImage(e0, e1, WordBytes(main),
                                       WordBytes(abbr)))
    /\ global_location = word_from_slice(zmem.bytes, HOF_GLOBAL_LOCATION)
    /\ overflow_checks = TRUE
    /\ zstack = ZStack_new
    /\ op = [name |-> "new"]
    /\ res = Ok(0)
    /\ pre_mem = zmem
    /\ pre_stack = zstack
    /\ lifo = <<>>
    /\ nops = 0
    /\ pc = word_from_slice(zmem.bytes, HOF_START_PC)
    /\ version = byte_from_slice(zmem.bytes, HOF_VERSION)

\* A panic or an exhausted stack ends the process.
ZstrRunning == res.kind \notin {"Panic", "Unbounded"} /\ nops < MaxZstrOps

\* read_zstr_from_memory at an offset.
ReadZstrFromMemory ==
    /\ ZstrRunning
    /\ \E offset \in {StrCode + 1, AbbrevStr} :
       \E r \in {read_zstr_from_memory(zmem, abbrev_location(zmem).val,
                                       offset, {})} :
          Called([name |-> "read_zstr_from_memory", offset |-> offset,
                  next |-> r.next, depth |-> r.depth],
                 zmem, zstack, r.res, <<op, res>>)

\* read_abbrev of an entry.
ReadAbbrev ==
    /\ ZstrRunning
    /\ \E entry \in {<<1, 0>>, <<1, 1>>, <<2, 0>>} :
       \E r \in {read_abbrev(zmem, abbrev_location(zmem).val, entry[1],
                             entry[2], {})} :
          Called([name |-> "read_abbrev", abbrev_table |-> entry[1],
                  abbrev_number |-> entry[2], depth |-> r.depth + 1],
                 zmem, zstack, r.res, <<op, res>>)

\* The print instruction at the pc is executed; `text` is what it prints.
ExecuteLiteral ==
    /\ ZstrRunning
    /\ pc = StrCode
    /\ \E step \in {execute_instruction(zmem, zstack, pc, version)},
          zstr \in {read_zstr_from_pc(zmem, abbrev_location(zmem).val,
                                      pc + 1)} :
          Executed([name |-> "execute_opcode", at |-> pc,
                    handler |-> step.handler, form |-> step.form,
                    operands |-> step.operands, after |-> step.after,
                    text |-> zstr.res, depth |-> zstr.depth],
                   step, <<op, res>>)

NextZstr ==
    \/ ReadZstrFromMemory
    \/ ReadAbbrev
    \/ ExecuteLiteral

SpecZstr == InitZstr /\ [][NextZstr]_vars

----------------------------------------------------------------------------
(* Callee frames.  The runs start from the stack of ZStack::new or from a   *)
(* nearly full one; lifo holds, for each frame pushed by a step and not yet *)
(* popped, the stack as it was at the call.                                 *)

RECURSIVE PopWords(_, _)
PopWords(st, k) ==
    IF k = 0 THEN st
    ELSE The({IF IsOk(r.res) THEN PopWords(r.st, k - 1) ELSE r.st
              : r \in {pop_word(st)}})

\* The stacks the runs start from: TEST_FRAMES frames of 8 locals; the same
\* followed by the frame that does not fit; that one followed by four
\* pop_word calls.
FrameStack(setup) ==
    IF setup = "popped" THEN PopWords(TestStack("frame_overflow"), 4)
    ELSE TestStack(setup)

InitFrame == InitStack

FrameRunning == Running /\ nops < MaxFrameOps

\* The frame a pop_frame would leave is the one pushed last by a step.
LeavesCallee ==
    lifo # <<>> /\ zstack.fp = lifo[Len(lifo)].sp

FrameSetup ==
    \E setup \in {"frames", "frame_overflow", "popped"} :
        /\ nops = 0
        /\ op.name = "new"
        /\ op' = [name |-> "test_setup", test |-> setup]
        /\ zstack' = FrameStack(setup)
        /\ pre_stack' = zstack'
        /\ UNCHANGED <<pc, version, zmem, global_location, overflow_checks,
                       res, pre_mem, lifo, nops>>

CalleePushFrame ==
    /\ FrameRunning
    /\ \E c \in Calls :
       \E r \in {push_frame(zstack, c[1], c[2], c[3], c[4])} :
          Called([name |-> "push_frame", return_pc |-> c[1],
                  num_locals |-> c[2], return_var |-> c[3],
                  operands |-> c[4]],
                 zmem, r.st, r.res,
                 IF IsOk(r.res) THEN Append(lifo, zstack) ELSE lifo)

CalleePopFrame ==
    /\ FrameRunning
    /\ \E r \in {pop_frame(zstack)} :
          Called([name |-> "pop_frame", callee |-> LeavesCallee,
                  caller |-> IF LeavesCallee THEN lifo[Len(lifo)]
                             ELSE zstack],
                 zmem, r.st, r.res,
                 IF IsOk(r.res) /\ LeavesCallee
                 THEN SubSeq(lifo, 1, Len(lifo) - 1) ELSE lifo)

CalleePushWord ==
    /\ FrameRunning
    /\ \E val \in StackWords :
       \E r \in {push_word(zstack, val)} :
          Called([name |-> "push_word", val |-> val], zmem, r.st, r.res, lifo)

CalleePopWord ==
    /\ FrameRunning
    /\ \E r \in {pop_word(zstack)} :
          Called([name |-> "pop_word"], zmem, r.st, r.res, lifo)

CalleeWriteLocal ==
    /\ FrameRunning
    /\ \E l \in {0, 1, MAX_LOCAL} :
       \E r \in {write_variable(zmem, zstack, Local(l), 13689)} :
          Called([name |-> "write_variable", var |-> Local(l),
                  val |-> 13689], r.m, r.st, r.res, lifo)

CalleeReadLocal ==
    /\ FrameRunning
    /\ \E l \in {0, MAX_LOCAL} :
       \E r \in {read_variable(zmem, zstack, Local(l))} :
          Called([name |-> "read_variable", var |-> Local(l)],
                 r.m, r.st, r.res, lifo)

NextFrame ==
    \/ FrameSetup
    \/ CalleePushFrame
    \/ CalleePopFrame
    \/ CalleePushWord
    \/ CalleePopWord
    \/ CalleeWriteLocal
    \/ CalleeReadLocal

SpecFrame == InitFrame /\ [][NextFrame]_vars

----------------------------------------------------------------------------
(* Addresses converted to offsets: raw 16-bit values of a story's header    *)
(* and operands, as byte, word and packed addresses, in a V3 and in a V5    *)
(* story.                                                                   *)

\* Raw values: small ones, the ones of the tests of addressing.rs, 0x4321,
\* and the ones around the sign bit and the top of the 16-bit range.
RawAddresses ==
    (0 .. 31) \cup {53, 58, 62, 17185, 32767, 32768, 32769, 43690, 65534,
                    65535}

InitAddr == InitCall

\* ZOffset::from(ByteAddress::from_raw(raw))
ByteAddressToOffset ==
    /\ op.name = "new"
    /\ \E raw \in RawAddresses :
          Called([name |-> "ByteAddress", raw |-> raw], zmem, zstack,
                 Ok(ZOffset_from_ByteAddress(raw)), lifo)

\* ZOffset::from(WordAddress::from_raw(raw))
WordAddressToOffset ==
    /\ op.name = "new"
    /\ \E raw \in RawAddresses :
          Called([name |-> "WordAddress", raw |-> raw], zmem, zstack,
                 Ok(ZOffset_from_WordAddress(raw)), lifo)

\* ZOffset::from(PackedAddress::new(raw, version))
PackedAddressToOffset ==
    /\ op.name = "new"
    /\ \E raw \in RawAddresses :
          Called([name |-> "PackedAddress", raw |-> raw], zmem, zstack,
                 Ok(ZOffset_from_PackedAddress(PackedAddress_new(raw,
                                                                 version))),
                 lifo)

NextAddr ==
    \/ ByteAddressToOffset
    \/ WordAddressToOffset
    \/ PackedAddressToOffset

SpecAddr == InitAddr /\ [][NextAddr]_vars

----------------------------------------------------------------------------
(* The object table (objects.rs).  A V3 object record is 9 bytes; the tree  *)
(* of records follows the 31 words of property defaults.                    *)

\* ZObjectTable::new on the header's object-table address `base`.
ZObjectTable_new(base) ==
    [defaults_offset |-> base, tree_offset |-> ByteAddress_inc_by(base, 31 * 2)]

\* get_object: object 0 is the null object; the others are 9 bytes apart.
get_object(table, num) ==
    IF num = 0 THEN Err("NullObject", 0)
    ELSE IF ~IsOk(table.tree_offset) THEN Panic
    ELSE ByteAddress_inc_by(table.tree_offset.val, (num - 1) * 9)

\* get_object_parent, get_object_sibling, get_object_child: the byte at
\* o.0.inc_by(field), field 4, 5 or 6.
get_object_relative(m, o, field) ==
    The({IF IsOk(at) THEN read_byte(m, at.val) ELSE Panic
         : at \in {ByteAddress_inc_by(o, field)}})

get_object_parent(m, o) == get_object_relative(m, o, 4)
get_object_sibling(m, o) == get_object_relative(m, o, 5)
get_object_child(m, o) == get_object_relative(m, o, 6)

\* let bitnum = a % 16; let the_bit = 1 << (15 - bitnum);
bitnum(a) == a % 16
the_bit(a) == 2 ^ (15 - bitnum(a))

\* (word >> (15 - bitnum)) & 0b1
attribute_bit(word, a) == (word \div the_bit(a)) % 2

\* get_object_attribute: the word at o.0.inc_by(if a > 15 { 1 } else { 0 }),
\* bit 15 - a % 16.
get_object_attribute(m, o, a) ==
    The({IF ~IsOk(ba) THEN Panic
         ELSE The({IF ~IsOk(word) THEN Panic
                   ELSE Ok(attribute_bit(word.val, a))
                   : word \in {read_word(m, ba.val)}})
         : ba \in {ByteAddress_inc_by(o, IF a > 15 THEN 1 ELSE 0)}})

\* set_object_attribute: the same word with the bit cleared (v = 0) or set,
\* written back with write_word.
set_object_attribute(m, o, a, v) ==
    The({IF ~IsOk(ba) THEN [m |-> m, res |-> Panic]
         ELSE The({IF ~IsOk(word) THEN [m |-> m, res |-> Panic]
                   ELSE write_word(m, ba.val,
                            IF v = 0
                            THEN word.val
                                   - attribute_bit(word.val, a) * the_bit(a)
                            ELSE word.val
                                   + (1 - attribute_bit(word.val, a))
                                         * the_bit(a))
                   : word \in {read_word(m, ba.val)}})
         : ba \in {ByteAddress_inc_by(o, IF a > 15 THEN 1 ELSE 0)}})

\* The layout of the images of this specification: the object table's
\* address, the number of objects, and the length of the image.
ObjLayout == [otable |-> 16, objects |-> 2, size |-> 100]

\* The four attribute bytes the records start from.
AttributeBytes ==
    {<<0, 0, 0, 0>>, <<255, 255, 255, 255>>, <<165, 90, 195, 60>>}

\* A V3 story whose object records start with the attribute bytes attrs;
\* parent, sibling, child and the property address are 1, 2, 3 and 0x0055.
ObjImage(attrs) ==
    [i \in 0 .. ObjLayout.size - 1 |->
        CASE i = HOF_VERSION -> 3
          [] i = HOF_HIGH_MEMORY_BASE + 1 -> ObjLayout.size - 2
          [] i = HOF_START_PC + 1 -> ObjLayout.size - 2
          [] i = HOF_GLOBAL_LOCATION + 1 -> ObjLayout.otable
          [] i = HOF_STATIC_MEMORY_BASE + 1 -> ObjLayout.size - 2
          [] i >= ObjLayout.otable + 62
                /\ i < ObjLayout.otable + 62 + 9 * ObjLayout.objects ->
                (LET k == (i - ObjLayout.otable - 62) % 9
                 IN  IF k < 4 THEN attrs[k + 1]
                     ELSE IF k < 7 THEN k - 3
                     ELSE IF k = 8 THEN 85 ELSE 0)
          [] OTHER -> 0]

ObjectTable == ZObjectTable_new(ObjLayout.otable)

InitObj ==
    /\ \E attrs \in AttributeBytes : zmem = ZMemory_new(ObjImage(attrs))
    /\ global_location = word_from_slice(zmem.bytes, HOF_GLOBAL_LOCATION)
    /\ overflow_checks = TRUE
    /\ zstack = ZStack_new
    /\ op = [name |-> "new"]
    /\ res = Ok(0)
    /\ pre_mem = zmem
    /\ pre_stack = zstack
    /\ lifo = <<>>
    /\ nops = 0
    /\ pc = word_from_slice(zmem.bytes, HOF_START_PC)
    /\ version = byte_from_slice(zmem.bytes, HOF_VERSION)

ObjRunning == IsOk(res) /\ nops < MaxObjOps

SetObjectAttribute ==
    /\ ObjRunning
    /\ \E num \in 1 .. ObjLayout.objects, a \in 0 .. 31, v \in {0, 1} :
       \E o \in {get_object(ObjectTable, num)} :
       \E r \in {set_object_attribute(zmem, o.val, a, v)} :
          Called([name |-> "set_object_attribute", num |-> num,
                  o |-> o.val, a |-> a, v |-> v],
                 r.m, zstack, r.res, lifo)

GetObjectAttribute ==
    /\ ObjRunning
    /\ \E num \in 1 .. ObjLayout.objects, a \in 0 .. 31 :
       \E o \in {get_object(ObjectTable, num)} :
          Called([name |-> "get_object_attribute", num |-> num,
                  o |-> o.val, a |-> a],
                 zmem, zstack, get_object_attribute(zmem, o.val, a), lifo)

GetObjectRelative ==
    /\ ObjRunning
    /\ \E num \in 1 .. ObjLayout.objects, field \in {4, 5, 6} :
       \E o \in {get_object(ObjectTable, num)} :
          Called([name |-> "get_object_relative", num |-> num,
                  o |-> o.val, field |-> field],
                 zmem, zstack, get_object_relative(zmem, o.val, field), lifo)

NextObj ==
    \/ SetObjectAttribute
    \/ GetObjectAttribute
    \/ GetObjectRelative

SpecObj == InitObj /\ [][NextObj]_vars

----------------------------------------------------------------------------
(* Properties of the memory image (SpecMem)                                *)

\* The image as it was loaded: the bases cached by ZMemory::new and the
\* globals address cached by ZVariables::new determine it.
LoadedImage == StoryImage(zmem.static_mem, zmem.high_mem, global_location)

IsRead == op.name \in {"read_byte", "read_word", "read_variable"}
IsWrite == op.name \in {"write_byte", "write_word", "write_variable", "storew"}

\* C1: whatever reads and writes (write_byte, write_word, storew, writes of
\* globals) have been made, every byte at an offset >= static_mem has the
\* value it was loaded with, and a read leaves every byte as it was.
C1_MemoryProtection ==
    /\ \A o \in 0 .. MemSize - 1 :
          o >= zmem.static_mem => zmem.bytes[o] = LoadedImage[o]
    /\ IsRead => zmem = pre_mem

\* A storew across static_mem: refused, after its first byte was stored in
\* dynamic memory.
C1_Witness ==
    /\ op.name = "storew"
    /\ res.kind = "WriteViolation"
    /\ zmem.bytes # pre_mem.bytes
    /\ nops = MaxMemOps

\* C2: write_byte below static_mem succeeds and read_byte then returns the
\* byte; write_word with both bytes below static_mem, aligned or not,
\* succeeds, read_word then returns the word, and the high byte is first.
C2_WriteReadRoundTrip ==
    /\ (op.name = "write_byte" /\ op.at < zmem.static_mem) =>
          /\ res = Ok(0)
          /\ read_byte(zmem, op.at) = Ok(op.val)
    /\ (op.name = "write_word" /\ op.at + 1 < zmem.static_mem) =>
          /\ res = Ok(0)
          /\ read_word(zmem, op.at) = Ok(op.val)
          /\ zmem.bytes[op.at] = op.val \div 256
          /\ zmem.bytes[op.at + 1] = op.val % 256

\* A word written at an odd offset, over a byte an earlier call wrote.
C2_Witness ==
    /\ op.name = "write_word"
    /\ op.at % 2 = 1
    /\ op.at + 1 < zmem.static_mem
    /\ op.val = 4660
    /\ pre_mem.bytes[op.at] # LoadedImage[op.at]
    /\ IsOk(res)

\* C3: write_byte at or above static_mem returns WriteViolation with that
\* offset, and read_byte there returns what it returned before the call.
C3_WriteViolation ==
    (op.name = "write_byte" /\ op.at >= zmem.static_mem) =>
        /\ res = Err("WriteViolation", op.at)
        /\ read_byte(zmem, op.at) = read_byte(pre_mem, op.at)

\* A byte refused in high memory.
C3_Witness ==
    /\ op.name = "write_byte"
    /\ op.at >= zmem.high_mem
    /\ op.val # pre_mem.bytes[op.at]
    /\ res.kind = "WriteViolation"

\* C4 (as claimed): a write_word that returns an error leaves the bytes at
\* its offset and at the next offset as they were.
C4_FailedWriteWordAtomic ==
    (op.name = "write_word" /\ ~IsOk(res)) =>
        \A o \in {op.at, op.at + 1} \cap (0 .. MemSize - 1) :
            zmem.bytes[o] = pre_mem.bytes[o]

----------------------------------------------------------------------------
(* Properties of the call stack (SpecStack)                                *)

FrameSize(n) == LOCAL_VAR_OFFSET + 2 * n

\* The bytes of the stack below index k are the same in st1 and st2.
SameBelow(st1, st2, k) ==
    \A i \in 0 .. k - 1 : st1.stack[i] = st2.stack[i]

\* C5 (as claimed): in every stack the calls can reach, a push_frame that
\* succeeds, followed at once by pop_frame, gives back sp, fp and s0, the
\* bytes below sp (the caller's locals, eval area and frame header) and the
\* caller's return_pc, return_variable and num_locals.
C5_FrameRoundTrip ==
    \A c \in Calls :
        LET pushed == push_frame(zstack, c[1], c[2], c[3], c[4])
            popped == pop_frame(pushed.st)
        IN  IsOk(pushed.res) =>
                /\ IsOk(popped.res)
                /\ popped.st.sp = zstack.sp
                /\ popped.st.fp = zstack.fp
                /\ popped.st.s0 = zstack.s0
                /\ SameBelow(popped.st, zstack, zstack.sp)
                /\ return_pc(popped.st) = return_pc(zstack)
                /\ return_variable(popped.st) = return_variable(zstack)
                /\ num_locals(popped.st) = num_locals(zstack)

\* C6: after a push_frame that succeeds, the accessors return its arguments,
\* saved_fp is the fp before the call, local i holds operand i for
\* i < min(len, n) and 0 for the other i < n, the eval area is empty, and
\* nothing but the new frame was written (operands beyond n are dropped).
C6_PushFramePostcondition ==
    (op.name = "push_frame" /\ IsOk(res)) =>
        /\ num_locals(zstack) = Ok(op.num_locals)
        /\ return_pc(zstack) = Ok(op.return_pc)
        /\ ZVariable_from_u8(return_variable(zstack).val) = op.return_var
        /\ saved_fp(zstack) = Ok(pre_stack.fp)
        /\ zstack.fp = pre_stack.sp
        /\ \A i \in 0 .. op.num_locals - 1 :
              read_local(zstack, i).res =
                  Ok(IF i < Len(op.operands) THEN op.operands[i + 1] ELSE 0)
        /\ zstack.sp = zstack.s0
        /\ zstack.sp = pre_stack.sp + FrameSize(op.num_locals)
        /\ SameBelow(zstack, pre_stack, pre_stack.sp)
        /\ \A i \in zstack.sp .. STACK_SIZE - 1 :
              zstack.stack[i] = pre_stack.stack[i]

\* A frame pushed with more operands than locals, over bytes that earlier
\* calls left above sp.
C6_Witness ==
    /\ op.name = "push_frame"
    /\ IsOk(res)
    /\ op.num_locals > 0
    /\ Len(op.operands) > op.num_locals
    /\ \E i \in pre_stack.sp .. zstack.sp - 1 : pre_stack.stack[i] # 0

\* C7 (as claimed): a push_frame that returns StackOverflow leaves fp, sp,
\* s0 and the bytes of the stack as they were.
C7_NoPartialFrame ==
    (op.name = "push_frame" /\ res.kind = "StackOverflow") =>
        /\ zstack.fp = pre_stack.fp
        /\ zstack.sp = pre_stack.sp
        /\ zstack.s0 = pre_stack.s0
        /\ SameBelow(zstack, pre_stack, pre_stack.sp)

\* C8: push_word succeeds exactly when sp + 2 <= STACK_SIZE and push_frame
\* with n locals exactly when sp + 8 + 2n <= STACK_SIZE; a call that does
\* not succeed returns StackOverflow.  The TEST_FRAMES frames of 8 locals
\* of the tests fit above the base frame, and four words above them.
C8_OverflowAtCapacity ==
    /\ op.name = "push_word" =>
          /\ IsOk(res) <=> pre_stack.sp + 2 <= STACK_SIZE
          /\ ~IsOk(res) => res.kind = "StackOverflow"
    /\ op.name = "push_frame" =>
          /\ IsOk(res) <=>
                pre_stack.sp + FrameSize(op.num_locals) <= STACK_SIZE
          /\ ~IsOk(res) => res.kind = "StackOverflow"
    /\ (op.name = "test_setup" /\ op.test = "frames") =>
          zstack.sp = FrameSize(0) + TEST_FRAMES * FrameSize(8)
    /\ (op.name = "test_setup" /\ op.test = "words") =>
          zstack.sp = FrameSize(0) + TEST_FRAMES * FrameSize(8) + 4 * 2

\* The fifth word above the TEST_FRAMES frames: the stack is exactly full.
C8_Witness ==
    /\ op.name = "push_word"
    /\ res.kind = "StackOverflow"
    /\ pre_stack.sp = STACK_SIZE
    /\ pre_stack.fp = FrameSize(0) + (TEST_FRAMES - 1) * FrameSize(8)

\* C9 (as claimed): in every stack the calls can reach, pop_frame on the
\* frame whose saved fp is STACK_SIZE returns StackUnderflow and changes
\* nothing, and pop_frame on any other frame succeeds.
C9_PopFrameUnderflowOnlyAtRoot ==
    LET popped == pop_frame(zstack)
    IN  IF saved_fp(zstack) = Ok(STACK_SIZE)
        THEN popped.res.kind = "StackUnderflow" /\ popped.st = zstack
        ELSE IsOk(popped.res)

\* C10 (as claimed): a pop_word or a read of the Stack variable returns the
\* last word that a successful push_word or write of the Stack variable
\* pushed in this frame and that has not been popped yet.
C10_EvalAreaLIFO ==
    (op.name \in {"pop_word", "read_variable"} /\ op.expected.val # -1) =>
        res = Ok(op.expected.val)

\* The same for the words pushed by push_word alone.
PushWordLIFO ==
    (op.name \in {"pop_word", "read_variable"}
        /\ op.expected.by = "push_word") =>
        res = Ok(op.expected.val)

\* The base of the current frame's eval area as the frame header gives it:
\* the first byte after the local slots.
EvalBase(st) == st.fp + FrameSize(num_locals(st).val)

\* The number of pop_word calls that succeed before one fails.
RECURSIVE CountPops(_)
CountPops(st) ==
    LET r == pop_word(st)
    IN  IF IsOk(r.res) THEN 1 + CountPops(r.st) ELSE 0

\* C11 (as claimed): at sp = s0 pop_byte and pop_word return StackUnderflow;
\* a pop that succeeds leaves sp at or above the end of the current frame's
\* locals, so it returned no byte of a header, a local or an earlier frame;
\* and after push_frame and pop_frame exactly as many pop_word calls succeed
\* as the caller's eval area held words.
C11_PopsStayInEvalArea ==
    LET b == pop_byte(zstack)
        w == pop_word(zstack)
    IN  /\ zstack.sp = zstack.s0 =>
              /\ b.res.kind = "StackUnderflow" /\ b.st = zstack
              /\ w.res.kind = "StackUnderflow" /\ w.st = zstack
        /\ IsOk(b.res) => b.st.sp >= EvalBase(zstack)
        /\ IsOk(w.res) => w.st.sp >= EvalBase(zstack)
        /\ \A c \in Calls :
              LET pushed == push_frame(zstack, c[1], c[2], c[3], c[4])
                  popped == pop_frame(pushed.st)
              IN  (IsOk(pushed.res) /\ IsOk(popped.res)) =>
                      CountPops(popped.st) = (zstack.sp - zstack.s0) \div 2

----------------------------------------------------------------------------
(* Properties of the locals and the variable namespace (SpecVars)          *)

\* C12: read_local(l) returns LocalOutOfRange(l, n) when l >= n, the number
\* of locals of the current frame, and the value local l was last given when
\* l < n; the stack is as before the call.
C12_ReadLocal ==
    op.name = "read_local" =>
        /\ zstack = pre_stack
        /\ op.l >= Len(lifo) => res = Err2("LocalOutOfRange", op.l, Len(lifo))
        /\ op.l < Len(lifo) => res = Ok(lifo[op.l + 1])

\* The last local of a frame read after a write gave it a value, and the
\* first index past the locals refused.
C12_Witness ==
    /\ op.name = "read_local"
    /\ \/ op.l = Len(lifo) - 1 /\ res = Ok(43981) /\ nops = MaxVarOps
       \/ op.l = Len(lifo) /\ op.l > 0 /\ res.kind = "LocalOutOfRange"

\* C13 (as claimed): write_local(l, v) with l >= n, the number of locals of
\* the current frame, returns LocalOutOfRange and leaves every byte of the
\* stack as it was.
C13_WriteLocalRange ==
    (op.name = "write_local" /\ op.l >= Len(lifo)) =>
        /\ res.kind = "LocalOutOfRange"
        /\ zstack = pre_stack

C15_EncodingBijection ==
    /\ op.name = "decode" =>
          /\ op.byte = 0 => op.var = Stack
          /\ op.byte \in 1 .. 15 => op.var = Local(op.byte - 1)
          /\ op.byte \in 16 .. 255 => op.var = Global(op.byte - 16)
          /\ op.back = Ok(op.byte)
    /\ op.name = "encode" =>
          /\ IsOk(op.byte)
          /\ op.back = op.var

\* The last Local byte decoded and the last Global encoded.
C15_Witness ==
    \/ op.name = "decode" /\ op.byte = 15 /\ op.var = Local(MAX_LOCAL)
    \/ op.name = "encode" /\ op.var = Global(MAX_GLOBAL) /\ op.byte = Ok(255)

\* C16 (as claimed): write_variable(Stack, v) with no room on the stack
\* returns StackOverflow, read_variable(Stack) on an empty eval area returns
\* StackUnderflow, and a Local access that the stack rejects returns the
\* stack's error.
C16_NoStackErrorSwallowed ==
    /\ (op.name = "write_variable" /\ op.var = Stack
            /\ pre_stack.sp + 2 > STACK_SIZE) =>
          res.kind = "StackOverflow"
    /\ (op.name = "read_variable" /\ op.var = Stack
            /\ pre_stack.sp = pre_stack.s0) =>
          res.kind = "StackUnderflow"
    /\ (op.name = "read_variable" /\ op.var.tag = "Local"
            /\ op.var.idx <= MAX_LOCAL
            /\ ~IsOk(read_local(pre_stack, op.var.idx).res)) =>
          res = read_local(pre_stack, op.var.idx).res
    /\ (op.name = "write_variable" /\ op.var.tag = "Local"
            /\ op.var.idx <= MAX_LOCAL
            /\ ~IsOk(write_local(pre_stack, op.var.idx, op.val).res)) =>
          res = write_local(pre_stack, op.var.idx, op.val).res

----------------------------------------------------------------------------
(* Properties of calls and returns (SpecCall) *)

IsReturn == op.name \in {"rtrue", "rfalse", "ret"}

\* The stack bytes below `top` are those of the caller's stack `st`.
CallerBytesKept(st, top) ==
    \A i \in 0 .. top - 1 : zstack.stack[i] = st.stack[i]

CallArguments(operands) ==
    LET given == {i \in 2 .. 4 : operands[i].kind # "Omitted"}
    IN  [i \in 1 .. Cardinality(given) |-> operands[i + 1].val]

\* C18 (as claimed): a call with a non-zero routine address pushes a frame
\* whose locals are the routine header's defaults (V3: the inline words, V5:
\* zeros) overwritten in order by the argument operands, and leaves the pc
\* at the first byte after the routine header.
C18_CallLocals ==
    (op.name = "call" /\ IsOk(res) /\ op.operands[1].val # 0) =>
        LET routine == make_packed_address(version, op.operands[1].val)
            n == pre_mem.bytes[routine]
            args == CallArguments(op.operands)
        IN  /\ num_locals(zstack) = Ok(n)
            /\ pc = routine + 1 + (IF version < 5 THEN 2 * n ELSE 0)
            /\ \A i \in 0 .. n - 1 :
                  read_local(zstack, i).res =
                      Ok(IF i < Len(args) THEN args[i + 1]
                         ELSE IF version < 5
                         THEN word_from_slice(pre_mem.bytes, routine + 1 + 2 * i)
                         ELSE 0)

\* C19 (as claimed): a call whose first operand is 0 pushes no frame, writes
\* 0 to the store variable and leaves the pc after the call's store byte.
C19_CallZero ==
    (op.name = "call" /\ op.operands[1].val = 0) =>
        /\ IsOk(res)
        /\ zstack.fp = pre_stack.fp
        /\ zstack.s0 = pre_stack.s0
        /\ pc = op.site + 1
        /\ ZVariable_from_u8(pre_mem.bytes[op.site]) = Stack =>
              /\ zstack.sp = pre_stack.sp + 2
              /\ word_from_slice(zstack.stack, pre_stack.sp) = 0
        /\ ZVariable_from_u8(pre_mem.bytes[op.site]) = Global(0) =>
              read_variable(zmem, zstack, Global(0)).res = Ok(0)

----------------------------------------------------------------------------
(* Properties of the opcode decoding (SpecDecode) *)

\* Bit k of a byte.
Bit(byte, k) == (byte \div (2 ^ k)) % 2

\* C20: the first opcode byte b is extended iff the version is 5 or more and
\* b = 0xBE; otherwise it is short iff its top two bits are 10 (number = low
\* 4 bits, operand kind = bits 4-5, Omitted meaning 0OP and any other kind
\* 1OP), variable iff its top two bits are 11 (number = low 5 bits), and long
\* otherwise (number = low 5 bits, two operands, bit 6 choosing Variable or
\* SmallConstant for the first and bit 5 for the second); in V3 0xBE is short.
C20_OpcodeForm ==
    op.name = "execute_opcode" =>
        LET b == op.byte
            d == op.decoded
            top == b \div 64
            kind == (b \div 16) % 4
        IN  /\ d.form = "extended" <=> (version >= 5 /\ b = 190)
            /\ d.form # "extended" =>
                  /\ d.form = "short" <=> top = 2
                  /\ d.form = "var" <=> top = 3
                  /\ d.form = "long" <=> top \in {0, 1}
            /\ d.form = "short" =>
                  /\ d.opcode = b % 16
                  /\ d.optypes =
                        <<CASE kind = 0 -> "LargeConstant"
                            [] kind = 1 -> "SmallConstant"
                            [] kind = 2 -> "Var"
                            [] OTHER -> "Omitted">>
                  /\ d.table = (IF kind = 3 THEN "0op" ELSE "1op")
            /\ d.form = "var" => d.opcode = b % 32
            /\ d.form = "long" =>
                  /\ d.opcode = b % 32
                  /\ Len(d.optypes) = 2
                  /\ d.optypes[1] =
                        (IF Bit(b, 6) = 1 THEN "Var" ELSE "SmallConstant")
                  /\ d.optypes[2] =
                        (IF Bit(b, 5) = 1 THEN "Var" ELSE "SmallConstant")
            /\ (version = 3 /\ b = 190) => d.form = "short"

\* 0xBE decoded in a V3 story: the short form, 0OP number 14.
C20_Witness ==
    /\ op.name = "execute_opcode"
    /\ op.byte = EXTENDED_OPCODE_SENTINEL
    /\ version = 3
    /\ op.decoded.form = "short"
    /\ op.decoded.opcode = 14
    /\ op.decoded.table = "0op"

----------------------------------------------------------------------------
(* Properties of the executed instructions (SpecExec) *)

IsStep == op.name = "execute_opcode"

\* The four 2-bit kinds of a kinds byte, most significant pair first.
KindsOf(t) == <<(t \div 64) % 4, (t \div 16) % 4, (t \div 4) % 4, t % 4>>

\* Bytes an operand of kind k takes.
KindSize(k) == CASE k = 0 -> 2 [] k = 3 -> 0 [] OTHER -> 1

\* The number of kinds before the first Omitted one.
Supplied(kinds) ==
    IF kinds[1] = 3 THEN 0
    ELSE IF kinds[2] = 3 THEN 1
    ELSE IF kinds[3] = 3 THEN 2
    ELSE IF kinds[4] = 3 THEN 3 ELSE 4

\* The operand of kind k in the bytes of image m at address a.
OperandAt(m, a, k) ==
    CASE k = 0 -> LargeConstant(m.bytes[a] * 256 + m.bytes[a + 1])
      [] k = 1 -> SmallConstant(m.bytes[a])
      [] k = 2 -> Var(IF m.bytes[a] = 0 THEN Stack
                      ELSE IF m.bytes[a] < 16 THEN Local(m.bytes[a] - 1)
                      ELSE Global(m.bytes[a] - 16))
      [] OTHER -> NoOperand

\* Address of operand i of a var-form instruction at address a.
RECURSIVE OperandAddress(_, _, _)
OperandAddress(a, kinds, i) ==
    IF i = 1 THEN a + 2
    ELSE OperandAddress(a, kinds, i - 1) + KindSize(kinds[i - 1])

\* C21: in the variable form the byte after the opcode holds four 2-bit
\* operand kinds, most significant pair first; the operands are read in that
\* order and the first Omitted kind ends the reading: the kinds after it take
\* no bytes and every later operand slot is Omitted.
C21_VarOperands ==
    (IsStep /\ op.form = "var") =>
        LET kinds == KindsOf(pre_mem.bytes[op.at + 1])
            n == Supplied(kinds)
        IN  /\ \A i \in 1 .. 4 :
                  op.operands[i] =
                      IF i <= n
                      THEN OperandAt(pre_mem,
                                     OperandAddress(op.at, kinds, i), kinds[i])
                      ELSE NoOperand
            /\ op.after = OperandAddress(op.at, kinds, n + 1)

\* print_num with kinds small, small, Omitted, small: two operands read, the
\* byte after them is not an operand.
C21_Witness ==
    /\ IsStep
    /\ op.form = "var"
    /\ KindsOf(pre_mem.bytes[op.at + 1]) = <<1, 1, 3, 1>>
    /\ op.operands = <<SmallConstant(1), SmallConstant(2), NoOperand, NoOperand>>
    /\ op.after = op.at + 4

\* C22: operand kind 00 reads a big-endian 2-byte LargeConstant and moves the
\* pc by 2, kind 01 reads a 1-byte SmallConstant and moves it by 1, kind 10
\* reads 1 byte as a variable name and moves it by 1, kind 11 gives Omitted
\* and leaves the pc; the bits of the kind value above the low two are
\* ignored.
C22_ReadOperand ==
    \A k \in Bytes, a \in CodeBase .. CodeBase + 3 :
        LET r == read_operand(zmem, a, ZOperandType_from_u8(k))
        IN  /\ r.operand = OperandAt(zmem, a, k % 4)
            /\ r.pc = a + KindSize(k % 4)
            /\ IsOk(r.res)

\* A jump whose operand is the large constant 5, read from two bytes.
C22_Witness ==
    /\ IsStep
    /\ op.form = "short"
    /\ op.handler = "jump"
    /\ op.operands[1] = LargeConstant(5)
    /\ op.after = op.at + 3
    /\ read_operand(pre_mem, op.at + 1, ZOperandType_from_u8(252)).pc = op.after

\* The number of operands a handler requires.
Required(handler) ==
    CASE handler \in {"jz", "ret", "jump", "print_char", "print_num"} -> 1
      [] handler \in {"je", "inc_chk", "add", "sub", "and", "store", "loadw",
                      "loadb"} -> 2
      [] handler = "storew" -> 3
      [] OTHER -> 0

\* C23 (as claimed): an instruction of jz, je, inc_chk, add, sub, and, store,
\* loadw, loadb, storew, ret, jump, print_char or print_num one of whose
\* required operands was decoded as Omitted returns MissingOperand.
C23_MissingOperand ==
    (IsStep /\ \E i \in 1 .. Required(op.handler) :
                   op.operands[i].kind = "Omitted") =>
        res.kind = "MissingOperand"

\* The offset a branch's bytes encode, b the first byte and second the byte
\* after it: the low 6 bits of b when bit 6 is set, else the 14-bit two's
\* complement number made of them and the second byte.
BranchOffset(b, second) ==
    IF Bit(b, 6) = 1 THEN b % 64
    ELSE IF (b % 64) * 256 + second >= 8192
    THEN (b % 64) * 256 + second - 16384
    ELSE (b % 64) * 256 + second

\* Length of the branch bytes whose first byte is b.
BranchSize(b) == IF Bit(b, 6) = 1 THEN 1 ELSE 2

\* A jz, or a je of two operands (the long form), whose operands have
\* values.
IsBranchStep ==
    /\ IsStep
    /\ op.handler \in {"jz", "je"}
    /\ IsOk(ZOperand_value(op.operands[1], pre_mem, pre_stack).res)
    /\ op.handler = "je" =>
          /\ op.form = "long"
          /\ IsOk(ZOperand_value(op.operands[2], pre_mem, pre_stack).res)

\* The truth value of the predicate of that instruction.
BranchTruth ==
    LET a == ZOperand_value(op.operands[1], pre_mem, pre_stack)
        b == ZOperand_value(op.operands[2], a.m, a.st)
    IN  IF op.handler = "jz" THEN a.res.val = 0
        ELSE a.res.val = b.res.val

\* Its branch bytes: whether it branches, by what, and where they end.
BranchStep ==
    LET byte == pre_mem.bytes[op.after]
    IN  [taken |-> BranchTruth = (Bit(byte, 7) = 1),
         offset |-> BranchOffset(byte, pre_mem.bytes[op.after + 1]),
         next |-> op.after + BranchSize(byte)]

\* C24: of a branch's first byte b, bit 7 is the polarity; with bit 6 set the
\* offset is the low 6 bits (0..63) and no further byte is read; otherwise
\* one more byte is read and the offset is the 14-bit value of the low 6
\* bits of b and that byte, sign-extended from bit 13: 0b0010_1010 0xAB is
\* -5461 and 0b0011_1111 0xFF is -1.
C24_BranchOffset ==
    /\ \A b \in Bytes, a \in CodeBase .. CodeBase + 3 :
          LET r == interpret_offset_byte(zmem, a, b)
          IN  /\ r.offset = BranchOffset(b, zmem.bytes[a])
              /\ r.pc = a + BranchSize(b) - 1
              /\ Bit(b, 6) = 1 => r.offset = b % 64
    /\ BranchOffset(42, 171) = -5461
    /\ BranchOffset(63, 255) = -1
    /\ (IsBranchStep /\ IsOk(res) /\ pc # BranchStep.next) =>
          (Bit(pre_mem.bytes[op.after], 7) = 1) = BranchTruth

\* jz of 0 with the branch bytes 0b0010_1010 0xAB: branch on false by
\* -5461, not taken, both bytes read.
C24_Witness ==
    /\ IsBranchStep
    /\ pre_mem.bytes[op.after] = 42
    /\ pre_mem.bytes[op.after + 1] = 171
    /\ interpret_offset_byte(pre_mem, op.after + 1, 42).offset = -5461
    /\ pc = op.after + 2

C26_BranchReturn ==
    (IsBranchStep /\ BranchStep.taken /\ BranchStep.offset \in {0, 1}) =>
        LET ret == return_value(pre_mem, pre_stack, BranchStep.next,
                                BranchStep.offset)
        IN  /\ res # Panic
            /\ res = ret.res
            /\ zstack = ret.st
            /\ pc = ret.pc

\* The operands of the executed instruction that are not Omitted.
SuppliedOperands ==
    {i \in 1 .. Len(op.operands) : op.operands[i].kind # "Omitted"}

\* The value of operand i of the executed instruction, before it ran.
OperandValue(i) == ZOperand_value(op.operands[i], pre_mem, pre_stack).res

\* C27 (as claimed): je takes 2 to 4 operands and its predicate is true iff
\* the first operand equals at least one of the other supplied operands;
\* the branch follows that predicate (je V1, #03, #05 ?+7 with V1 = 5 is
\* taken and moves the pc by 5).
C27_Je ==
    (/\ IsStep
     /\ op.handler = "je"
     /\ Cardinality(SuppliedOperands) >= 2
     /\ \A i \in SuppliedOperands : IsOk(OperandValue(i))) =>
        LET truth == \E i \in SuppliedOperands \ {1} :
                         OperandValue(i).val = OperandValue(1).val
            byte == pre_mem.bytes[op.after]
            taken == truth = (Bit(byte, 7) = 1)
            offset == BranchOffset(byte, pre_mem.bytes[op.after + 1])
            next == op.after + BranchSize(byte)
        IN  /\ (taken /\ offset \notin {0, 1}) =>
                  IsOk(res) /\ pc = next + offset - 2
            /\ ~taken => IsOk(res) /\ pc = next

\* C28 (as claimed): inc_chk writes the variable's value + 1 (mod 2^16)
\* back, and branches on the new value being greater than the second
\* operand, both read as signed 16-bit numbers.
C28_IncChk ==
    (/\ IsStep
     /\ op.handler = "inc_chk"
     /\ op.operands[1].kind \in {"SmallConstant", "LargeConstant"}
     /\ IsOk(OperandValue(2))
     /\ IsOk(read_variable(pre_mem, pre_stack,
                           ZVariable_from_u8(op.operands[1].val % 256)).res)) =>
        LET var == ZVariable_from_u8(op.operands[1].val % 256)
            old == read_variable(pre_mem, pre_stack, var).res.val
            new == (old + 1) % U16
            truth == as_i16(new) > as_i16(OperandValue(2).val)
            byte == pre_mem.bytes[op.after]
            taken == truth = (Bit(byte, 7) = 1)
            offset == BranchOffset(byte, pre_mem.bytes[op.after + 1])
            next == op.after + BranchSize(byte)
        IN  /\ read_variable(zmem, zstack, var).res = Ok(new)
            /\ (taken /\ offset \notin {0, 1}) =>
                  IsOk(res) /\ pc = next + offset - 2
            /\ ~taken => IsOk(res) /\ pc = next

\* An add or a sub of two constants.
IsArithStep ==
    /\ IsStep
    /\ op.handler \in {"add", "sub"}
    /\ \A i \in {1, 2} :
          op.operands[i].kind \in {"SmallConstant", "LargeConstant"}

\* What it is to store: the sum or the difference mod 2^16.
ArithValue ==
    IF op.handler = "add"
    THEN (op.operands[1].val + op.operands[2].val) % U16
    ELSE (op.operands[1].val - op.operands[2].val + U16) % U16

Listed(table) ==
    CASE table = "0op" -> {0, 1, 2, 11}
      [] table = "1op" -> {0, 11, 12}
      [] table = "long" -> {1, 5, 9, 10, 13, 15, 16, 20, 21}
      [] table = "var" -> {0, 1, 3, 5, 6}
      [] OTHER -> {}

\* C30 (as claimed): for every first opcode byte and version, the opcode is
\* dispatched to a handler when its table and number are of the minimum
\* set, and is UnknownOpcode otherwise; no byte aborts the interpreter.
C30_Dispatch ==
    (op.name = "execute_opcode" /\ "decoded" \in DOMAIN op) =>
        LET handler == dispatch(op.decoded.table, op.decoded.opcode)
        IN  /\ handler # "Panic"
            /\ op.decoded.opcode \in Listed(op.decoded.table) <=>
                   handler # "UnknownOpcode"

\* C31: the execution loop runs an instruction only after every earlier one
\* succeeded: once a handler has returned an error no further instruction
\* is fetched or executed, so the error stays the result and memory, stack
\* and pc stay as the failed instruction left them.
C31_RunStops ==
    [][/\ IsOk(res)
       /\ op'.name = "execute_opcode"
       /\ nops' = nops + 1]_vars

\* add #FFFA, #62 -> L0 succeeded, the next opcode byte has no handler: the
\* loop has ended with UnknownOpcode and L0 keeps the sum.
C31_Witness ==
    /\ IsStep
    /\ nops = 2
    /\ res.kind = "UnknownOpcode"
    /\ read_local(zstack, 0).res = Ok(92)
    /\ pc > op.at

\* C32 (as claimed): offsetting the pc by a signed delta fails with
\* PCOutOfBounds and leaves the pc where it was when pc + delta is below 0,
\* so a jump or a taken branch never leaves the pc at a wrapped-around
\* value (a pc below 0 here stands for the usize the sum wraps to).
C32_OffsetPc ==
    (IsStep /\ op.handler \in {"jump", "jz", "je", "inc_chk"}) =>
        /\ pc >= 0
        /\ (/\ op.handler = "jump"
            /\ op.operands[1].kind \in {"SmallConstant", "LargeConstant"}
            /\ op.after + as_i16(op.operands[1].val) - 2 < 0) =>
                 /\ res.kind = "PCOutOfBounds"
                 /\ pc = op.after

----------------------------------------------------------------------------
(* Properties of the text decoder (SpecZstr) *)

\* The word at an address of the image.
WordAt(m, a) == m.bytes[a] * 256 + m.bytes[a + 1]

\* The address of the first word from a on with bit 15 set, -1 when the
\* image ends before one.
RECURSIVE LastWord(_, _)
LastWord(m, a) ==
    IF a + 1 >= MemSize THEN -1
    ELSE IF WordAt(m, a) >= 32768 THEN a
    ELSE LastWord(m, a + 2)

\* The 5-bit codes of the words from a up to the word at `last`.
RECURSIVE CodesFrom(_, _, _)
CodesFrom(m, a, last) ==
    IF a > last THEN <<>>
    ELSE <<(WordAt(m, a) \div 1024) % 32, (WordAt(m, a) \div 32) % 32,
           WordAt(m, a) % 32>> \o CodesFrom(m, a + 2, last)

\* The characters of a stream of codes that holds no abbreviation, `shift`
\* being in force for its first code.
RECURSIVE Emitted(_, _)
Emitted(codes, shift) ==
    IF codes = <<>> THEN <<>>
    ELSE CASE Head(codes) = 0 -> <<" ">> \o Emitted(Tail(codes), 0)
           [] Head(codes) = 4 -> Emitted(Tail(codes), 26)
           [] Head(codes) = 5 -> Emitted(Tail(codes), 52)
           [] OTHER -> <<V2_TO_4_TABLE[shift + Head(codes) - 6 + 1]>>
                           \o Emitted(Tail(codes), 0)

\* The string at a has an end and its codes hold no abbreviation.
PlainString(m, a) ==
    /\ LastWord(m, a) # -1
    /\ \A i \in 1 .. Len(CodesFrom(m, a, LastWord(m, a))) :
          CodesFrom(m, a, LastWord(m, a))[i] \notin {1, 2, 3}

\* C33: without abbreviations, each word yields the codes of its bits 14-10,
\* 9-5 and 4-0, the decoding stops after the first word with bit 15 set,
\* code 0 is a space, codes 6..31 are alphabet[shift + code - 6] and codes
\* 4 and 5 set the shift (26, 52) for the next code only, also when that
\* code is in the next word.
C33_ZstrDecoding ==
    /\ (op.name = "read_zstr_from_memory" /\ PlainString(zmem, op.offset)) =>
          /\ res = Ok(Emitted(CodesFrom(zmem, op.offset,
                                        LastWord(zmem, op.offset)), 0))
          /\ op.next = LastWord(zmem, op.offset) + 2
    /\ (op.name = "execute_opcode" /\ "text" \in DOMAIN op
            /\ PlainString(zmem, op.at + 1)) =>
          op.text = Ok(Emitted(CodesFrom(zmem, op.at + 1,
                                         LastWord(zmem, op.at + 1)), 0))

\* "ab", a shift to upper case as the last code of the first word, then
\* "Aaa": the shift holds for the first code of the second word only.
C33_Witness ==
    /\ op.name = "read_zstr_from_memory"
    /\ op.offset = StrCode + 1
    /\ WordAt(zmem, op.offset) = assemble_word(FALSE, 6, 7, 4)
    /\ WordAt(zmem, op.offset + 2) = assemble_word(TRUE, 6, 6, 6)
    /\ res = Ok(<<"a", "b", "A", "a", "a">>)

\* A step of the decoder: a string read from an offset, an abbreviation
\* expanded, or the literal string of print.
IsZstrStep ==
    \/ op.name \in {"read_zstr_from_memory", "read_abbrev"}
    \/ op.name = "execute_opcode" /\ "text" \in DOMAIN op

\* C34: decoding any string, also one whose abbreviation refers to itself
\* or to another abbreviation, terminates, and abbreviations are expanded
\* at most one level deep.
C34_AbbrevTerminates ==
    IsZstrStep => res.kind # "Unbounded" /\ op.depth <= 1

\* The two halves of C34, each on its own.
C34_Terminates == IsZstrStep => res.kind # "Unbounded"
C34_DepthOne == (IsZstrStep /\ IsOk(res)) => op.depth <= 1

\* The characters of a stream of codes that holds no abbreviation under the
\* ZSCII escape: code 6 under the shift 52 takes the next two codes as a
\* 10-bit ZSCII value (here the value itself stands for its character).
RECURSIVE EmittedWithEscape(_, _)
EmittedWithEscape(codes, shift) ==
    IF codes = <<>> THEN <<>>
    ELSE CASE Head(codes) = 0 -> <<" ">> \o EmittedWithEscape(Tail(codes), 0)
           [] Head(codes) = 4 -> EmittedWithEscape(Tail(codes), 26)
           [] Head(codes) = 5 -> EmittedWithEscape(Tail(codes), 52)
           [] Head(codes) = 6 /\ shift = 52 ->
                IF Len(codes) < 3 THEN <<>>
                ELSE <<codes[2] * 32 + codes[3]>>
                         \o EmittedWithEscape(SubSeq(codes, 4, Len(codes)), 0)
           [] OTHER -> <<V2_TO_4_TABLE[shift + Head(codes) - 6 + 1]>>
                           \o EmittedWithEscape(Tail(codes), 0)

\* The string at a has an end and holds the sequence 5, 6, x, y.
EscapeString(m, a) ==
    /\ LastWord(m, a) # -1
    /\ \E i \in 1 .. Len(CodesFrom(m, a, LastWord(m, a))) - 3 :
          /\ CodesFrom(m, a, LastWord(m, a))[i] = 5
          /\ CodesFrom(m, a, LastWord(m, a))[i + 1] = 6
          /\ \A j \in 1 .. i - 1 :
                CodesFrom(m, a, LastWord(m, a))[j] \in 6 .. 31

\* C35: after code 5, code 6 is the ZSCII escape: the next two codes are
\* consumed as a 10-bit value whose character is emitted, and code 6 emits
\* no table character there.
C35_ZsciiEscape ==
    (op.name = "read_zstr_from_memory" /\ EscapeString(zmem, op.offset)) =>
        res = Ok(EmittedWithEscape(CodesFrom(zmem, op.offset,
                                             LastWord(zmem, op.offset)), 0))

C36_WitnessRepeat ==
    /\ op.name = "read_zstr_from_memory"
    /\ lifo = <<op, res>> /\ IsOk(res) /\ op.depth = 1

----------------------------------------------------------------------------
(* Properties of the address conversions (SpecAddr) *)

\* C37: the conversion of an address to an offset is exact for every 16-bit
\* raw value, with nothing cut to 16 bits: a byte address a gives a, a word
\* address 2a, a packed address 2a in V3 and 4a in V5; 0x4321 gives 0x4321,
\* 0x8642 and, packed in V3, 0x8642.
C37_AddressesExact ==
    /\ op.name = "ByteAddress" => res = Ok(op.raw)
    /\ op.name = "WordAddress" => res = Ok(2 * op.raw)
    /\ op.name = "PackedAddress" =>
          res = Ok(IF version = 3 THEN 2 * op.raw ELSE 4 * op.raw)
    /\ (op.name = "ByteAddress" /\ op.raw = 17185) => res = Ok(17185)
    /\ (op.name = "WordAddress" /\ op.raw = 17185) => res = Ok(34370)
    /\ (op.name = "PackedAddress" /\ op.raw = 17185 /\ version = 3) =>
          res = Ok(34370)
    /\ (op.name \in {"ByteAddress", "WordAddress", "PackedAddress"}
            /\ op.raw = 0) =>
          \A a \in 0 .. U16 - 1 :
             /\ ZOffset_from_ByteAddress(a) = a
             /\ ZOffset_from_WordAddress(a) = 2 * a
             /\ ZOffset_from_PackedAddress(PackedAddress_new(a, 3)) = 2 * a
             /\ ZOffset_from_PackedAddress(PackedAddress_new(a, 5)) = 4 * a

\* The packed address 0x4321 of a V3 story: offset 0x8642.
C37_Witness ==
    /\ op.name = "PackedAddress" /\ op.raw = 17185 /\ version = 3
    /\ res = Ok(34370)

----------------------------------------------------------------------------
(* Properties of the stack's structure (SpecStack, SpecVars) *)

\* C38: in every state reached from ZStack::new by push_frame, pop_frame,
\* push_word, pop_word and reads and writes of locals, also after a call
\* that returned an error, fp + 8 + 2 * num_locals = s0 <= sp <= 1024.
C38_StackInvariant ==
    /\ IsOk(num_locals(zstack))
    /\ zstack.fp + LOCAL_VAR_OFFSET + 2 * num_locals(zstack).val = zstack.s0
    /\ zstack.s0 <= zstack.sp
    /\ zstack.sp <= STACK_SIZE

\* The same after the calls that returned Ok only.
C38_AfterSuccess ==
    (IsOk(res) /\ op.name # "test_setup") => C38_StackInvariant

\* The same in every state but the one a failed push_frame leaves.
C38_ButFailedPushFrame ==
    (op.name = "push_frame" /\ ~IsOk(res)) \/ C38_StackInvariant

----------------------------------------------------------------------------
(* Properties of callee frames (SpecFrame) *)

\* The locals of the current frame, as read_local returns them.
FrameLocals(st) ==
    [l \in 0 .. MAX_LOCAL |-> read_local(st, l).res]

\* No byte below the frame pointer of a frame pushed and not yet popped is
\* other than it was when the frame was pushed.
C39_BytesBelowCallee ==
    \A k \in 1 .. Len(lifo) : SameBelow(zstack, lifo[k], lifo[k].sp)

\* The pop of a callee gives the caller its stack back: sp, fp and s0, the
\* bytes below sp, the locals and the return bookkeeping of the call.
C39_CallerRestored ==
    (op.name = "pop_frame" /\ op.callee /\ IsOk(res)) =>
        /\ zstack.sp = op.caller.sp
        /\ zstack.fp = op.caller.fp
        /\ zstack.s0 = op.caller.s0
        /\ SameBelow(zstack, op.caller, op.caller.sp)
        /\ FrameLocals(zstack) = FrameLocals(op.caller)
        /\ return_pc(zstack) = return_pc(op.caller)
        /\ return_variable(zstack) = return_variable(op.caller)
        /\ num_locals(zstack) = num_locals(op.caller)
        /\ saved_fp(zstack) = saved_fp(op.caller)

\* C39: once a callee frame is pushed, no push_word, pop_word, read or write
\* of a local or nested push_frame and pop_frame changes a byte of the stack
\* below the callee's frame pointer, and after the callee is popped the
\* caller's locals, eval area and return bookkeeping are what they were at
\* the call.
C39_FrameIsolation == C39_BytesBelowCallee /\ C39_CallerRestored

\* The caller is restored whenever its frame was whole at the call, that is
\* when no failed push_frame had left fp and s0 apart.
C39_WholeCallerRestored ==
    (/\ op.name = "pop_frame" /\ op.callee
     /\ num_locals(op.caller).kind = "Ok"
     /\ op.caller.fp + FrameSize(num_locals(op.caller).val) = op.caller.s0) =>
        C39_CallerRestored

----------------------------------------------------------------------------
(* Properties of the object table (SpecObj) *)

\* The address of the record of object num.
Record(num) == get_object(ObjectTable, num).val

\* C40: the attributes are 32 independent bits in the first 4 bytes of the
\* 9-byte record: after set_object_attribute(o, a, v), get_object_attribute
\* (o, a) returns v, every other attribute b of o (and every attribute of
\* the other objects) reads as before, and so do the parent, sibling and
\* child bytes at the record's offsets 4, 5 and 6.
C40_ObjectAttributes ==
    (op.name = "set_object_attribute" /\ IsOk(res)) =>
        /\ get_object_attribute(zmem, op.o, op.a) = Ok(op.v)
        /\ \A num \in 1 .. ObjLayout.objects, b \in 0 .. 31 :
              (num # op.num \/ b # op.a) =>
                  get_object_attribute(zmem, Record(num), b)
                      = get_object_attribute(pre_mem, Record(num), b)
        /\ \A num \in 1 .. ObjLayout.objects, field \in {4, 5, 6} :
              get_object_relative(zmem, Record(num), field)
                  = get_object_relative(pre_mem, Record(num), field)

\* The parts of C40: the attribute set reads back; the other attributes of
\* the object are as before; the bytes from offset 4 on are as before.
C40_ReadsBack ==
    (op.name = "set_object_attribute" /\ IsOk(res)) =>
        get_object_attribute(zmem, op.o, op.a) = Ok(op.v)
C40_OthersUnchanged ==
    (op.name = "set_object_attribute" /\ IsOk(res)) =>
        \A b \in (0 .. 31) \ {op.a} :
            get_object_attribute(zmem, op.o, b)
                = get_object_attribute(pre_mem, op.o, b)
C40_RelativesUnchanged ==
    (op.name = "set_object_attribute" /\ IsOk(res)) =>
        \A i \in 4 .. 8 : zmem.bytes[op.o + i] = pre_mem.bytes[op.o + i]

====
